---- MODULE Spec2Model ----
(***************************************************************************)
(* Verification model of rtlib (the-ray-tracer-challenge): the shape       *)
(* life-cycle, the Intersections collection, PreCompute and the recursive  *)
(* World::color_at / shade_hit / reflected_color / refracted_color cycle.  *)
(*                                                                         *)
(* Floating-point numbers are modelled as exact rationals <<n, d>> in      *)
(* lowest terms with d > 0, extended with the IEEE specials                *)
(* +inf = <<1,0>>, -inf = <<-1,0>> and NaN = <<0,0>>.  Rounding is not     *)
(* modelled.                                                               *)
(***************************************************************************)
EXTENDS Integers, Sequences, FiniteSets, TLC

VARIABLES
    objects,      \* World::objects
    lights,       \* World::lights
    UID_COUNTER,  \* util::uid::UID_COUNTER
    stack,        \* the call stack of the color_at / shade_hit recursion
    ret,          \* the record of the call that returned last
    xs,           \* an Intersections collection, the last operation that
                  \* changed it and the result of hit()
    shape,        \* a shape under construction and transformation
    pre,          \* an intersection list, a target index and its PreCompute
    lit,          \* the arguments and the result of a Material::lighting call
    image,        \* the canvas and the loop position of render
    local,        \* a shape-space ray, the shape it met and the result of
                  \* local_intersect
    pat,          \* a stripe pattern, a point and the color found there
    calc,         \* the operands and the result of a Vec4 or Mat4 operation
    canvas,       \* a Canvas and the last calls on it, or the operands of its index
    threads       \* the threads that construct shapes: position and uids

vars == <<objects, lights, UID_COUNTER, stack, ret, xs, shape, pre,
         lit, image, local, pat, calc, canvas, threads>>

----------------------------------------------------------------------------
(* f64 arithmetic on exact rationals                                       *)

Abs(n) == IF n < 0 THEN -n ELSE n

RECURSIVE GCD(_, _)
GCD(a, b) == IF b = 0 THEN a ELSE GCD(b, a % b)

RNorm(n, d) ==
    IF n = 0 THEN <<0, 1>>
    ELSE LET g == GCD(Abs(n), Abs(d))
             s == IF d < 0 THEN -1 ELSE 1
         IN  <<s * (n \div g), s * (d \div g)>>

R(n) == <<n, 1>>
Q(n, d) == RNorm(n, d)

INFINITY == <<1, 0>>
NEG_INFINITY == <<-1, 0>>
NAN == <<0, 0>>

IsNaN(a) == a[2] = 0 /\ a[1] = 0
IsFinite(a) == a[2] # 0
RSign(a) == IF a[1] > 0 THEN 1 ELSE IF a[1] < 0 THEN -1 ELSE 0

RNeg(a) == <<-a[1], a[2]>>

RAdd(a, b) ==
    IF a[2] = 0 \/ b[2] = 0
    THEN IF IsNaN(a) \/ IsNaN(b) THEN NAN
         ELSE IF a[2] = 0 /\ b[2] = 0
              THEN (IF a[1] = b[1] THEN a ELSE NAN)
              ELSE (IF a[2] = 0 THEN a ELSE b)
    ELSE IF a[1] = 0 THEN b
    ELSE IF b[1] = 0 THEN a
    ELSE IF a[2] = b[2] THEN RNorm(a[1] + b[1], a[2])
    ELSE LET g == GCD(a[2], b[2])
         IN  RNorm(a[1] * (b[2] \div g) + b[1] * (a[2] \div g),
                   (a[2] \div g) * b[2])

RSub(a, b) == RAdd(a, RNeg(b))

RMul(a, b) ==
    IF a[2] = 0 \/ b[2] = 0
    THEN IF IsNaN(a) \/ IsNaN(b) \/ a[1] = 0 \/ b[1] = 0 THEN NAN
         ELSE <<RSign(a) * RSign(b), 0>>
    ELSE IF a[1] = 0 \/ b[1] = 0 THEN <<0, 1>>
    ELSE IF a[2] = 1 /\ b[2] = 1 THEN <<a[1] * b[1], 1>>
    ELSE LET g1 == GCD(Abs(a[1]), b[2])
             g2 == GCD(Abs(b[1]), a[2])
         IN  <<(a[1] \div g1) * (b[1] \div g2), (a[2] \div g2) * (b[2] \div g1)>>

RDiv(a, b) ==
    IF IsNaN(a) \/ IsNaN(b) THEN NAN
    ELSE IF b[2] = 0
         THEN (IF a[2] = 0 THEN NAN ELSE <<0, 1>>)
    ELSE IF b[1] = 0
         THEN (IF a[1] = 0 THEN NAN ELSE <<RSign(a), 0>>)
    ELSE IF b[1] > 0 THEN RMul(a, <<b[2], b[1]>>)
    ELSE RMul(a, <<-b[2], -b[1]>>)

RLt(a, b) ==
    IF IsNaN(a) \/ IsNaN(b) THEN FALSE
    ELSE IF a[2] = 0 \/ b[2] = 0
         THEN IF a[2] = 0 /\ b[2] = 0 THEN a[1] < b[1]
              ELSE IF a[2] = 0 THEN a[1] < 0
              ELSE b[1] > 0
    ELSE IF a[2] = b[2] THEN a[1] < b[1]
    ELSE IF a[1] \div a[2] # b[1] \div b[2] THEN a[1] \div a[2] < b[1] \div b[2]
    ELSE LET g == GCD(a[2], b[2])
         IN  (a[1] % a[2]) * (b[2] \div g) < (b[1] % b[2]) * (a[2] \div g)

RLe(a, b) == IF IsNaN(a) \/ IsNaN(b) THEN FALSE ELSE a = b \/ RLt(a, b)
RGt(a, b) == RLt(b, a)
RGe(a, b) == RLe(b, a)

RAbs(a) == <<Abs(a[1]), a[2]>>

\* f64::max / f64::min: a NaN operand is ignored
RMax(a, b) == IF IsNaN(a) THEN b ELSE IF IsNaN(b) THEN a ELSE IF RLt(a, b) THEN b ELSE a
RMin(a, b) == IF IsNaN(a) THEN b ELSE IF IsNaN(b) THEN a ELSE IF RLt(b, a) THEN b ELSE a

RECURSIVE ISqrt(_, _)
ISqrt(n, k) == IF k * k >= n THEN k ELSE ISqrt(n, k + 1)

\* f64::sqrt, exact on squares of rationals (the only arguments the model uses)
RSqrt(a) ==
    IF IsNaN(a) \/ a[1] < 0 THEN NAN
    ELSE IF a[2] = 0 THEN a
    ELSE <<ISqrt(a[1], 0), ISqrt(a[2], 1)>>

\* math::EPSILON = 0.00001
EPSILON == Q(1, 100000)

----------------------------------------------------------------------------
(* Vec4                                                                    *)

Vec4new(x, y, z, w) == [x |-> x, y |-> y, z |-> z, w |-> w]
point(x, y, z) == Vec4new(x, y, z, R(1))
vec(x, y, z) == Vec4new(x, y, z, R(0))

VAdd(a, b) == Vec4new(RAdd(a.x, b.x), RAdd(a.y, b.y), RAdd(a.z, b.z), RAdd(a.w, b.w))
VSub(a, b) == Vec4new(RSub(a.x, b.x), RSub(a.y, b.y), RSub(a.z, b.z), RSub(a.w, b.w))
VNeg(a) == Vec4new(RNeg(a.x), RNeg(a.y), RNeg(a.z), RNeg(a.w))
VMul(a, m) == Vec4new(RMul(a.x, m), RMul(a.y, m), RMul(a.z, m), RMul(a.w, m))
VDiv(a, m) == Vec4new(RDiv(a.x, m), RDiv(a.y, m), RDiv(a.z, m), RDiv(a.w, m))

dot(a, b) == RAdd(RAdd(RAdd(RMul(a.x, b.x), RMul(a.y, b.y)), RMul(a.z, b.z)), RMul(a.w, b.w))

\* sqrt(x^2 + y^2 + z^2 + w^2); for a vector along one axis this is the
\* absolute value of its only non-zero component, taken directly.
magnitude(a) ==
    LET nz == {c \in {"x", "y", "z", "w"} : a[c] # R(0)}
    IN  IF nz = {} THEN R(0)
        ELSE IF Cardinality(nz) = 1 THEN RAbs(a[CHOOSE c \in nz : TRUE])
        ELSE RSqrt(dot(a, a))

normalize(a) == VDiv(a, magnitude(a))

\* reflect that takes the normal part away once
reflectFlatten(a, normal) == VSub(a, VMul(normal, dot(a, normal)))

reflect(a, normal) == VSub(a, VMul(VMul(normal, R(2)), dot(a, normal)))

\* Vec4::cross: only the left operand is looked at before the product
cross(a, b) ==
    IF a.w # R(0) THEN [panicked |-> TRUE, v |-> <<>>]
    ELSE [panicked |-> FALSE,
          v |-> Vec4new(RSub(RMul(a.y, b.z), RMul(a.z, b.y)),
                        RSub(RMul(a.z, b.x), RMul(a.x, b.z)),
                        RSub(RMul(a.x, b.y), RMul(a.y, b.x)),
                        R(0))]

\* PartialEq for Vec4: every component closer than EPSILON
VecEq(a, b) ==
    /\ RLt(RAbs(RSub(a.x, b.x)), EPSILON) /\ RLt(RAbs(RSub(a.y, b.y)), EPSILON)
    /\ RLt(RAbs(RSub(a.z, b.z)), EPSILON) /\ RLt(RAbs(RSub(a.w, b.w)), EPSILON)

----------------------------------------------------------------------------
(* Color                                                                   *)

rgb(r, g, b) == [r |-> r, g |-> g, b |-> b]
BLACK == rgb(R(0), R(0), R(0))
WHITE == rgb(R(1), R(1), R(1))

CAdd(a, b) == rgb(RAdd(a.r, b.r), RAdd(a.g, b.g), RAdd(a.b, b.b))
CMul(a, m) == rgb(RMul(a.r, m), RMul(a.g, m), RMul(a.b, m))
CHad(a, b) == rgb(RMul(a.r, b.r), RMul(a.g, b.g), RMul(a.b, b.b))

----------------------------------------------------------------------------
(* Mat4, Mat3, Mat2: rows and columns are numbered from 1                  *)

Mat4IDENTITY ==
    << <<R(1), R(0), R(0), R(0)>>,
       <<R(0), R(1), R(0), R(0)>>,
       <<R(0), R(0), R(1), R(0)>>,
       <<R(0), R(0), R(0), R(1)>> >>

translation(x, y, z) ==
    << <<R(1), R(0), R(0), x>>,
       <<R(0), R(1), R(0), y>>,
       <<R(0), R(0), R(1), z>>,
       <<R(0), R(0), R(0), R(1)>> >>

scaling(x, y, z) ==
    << <<x, R(0), R(0), R(0)>>,
       <<R(0), y, R(0), R(0)>>,
       <<R(0), R(0), z, R(0)>>,
       <<R(0), R(0), R(0), R(1)>> >>

transpose(m) == [c \in 1..4 |-> [r \in 1..4 |-> m[r][c]]]

\* drop row r and column c of an n x n matrix
submatrix(m, n, r, c) ==
    [row \in 1..(n - 1) |->
        [col \in 1..(n - 1) |->
            m[IF row < r THEN row ELSE row + 1][IF col < c THEN col ELSE col + 1]]]

Mat2determinant(m) == RSub(RMul(m[1][1], m[2][2]), RMul(m[1][2], m[2][1]))

Mat3minor(m, r, c) == Mat2determinant(submatrix(m, 3, r, c))

Mat3cofactor(m, r, c) ==
    IF (r + c) % 2 = 1 THEN RMul(Mat3minor(m, r, c), R(-1)) ELSE Mat3minor(m, r, c)

Mat3determinant(m) ==
    RAdd(RAdd(RMul(m[1][1], Mat3cofactor(m, 1, 1)),
              RMul(m[1][2], Mat3cofactor(m, 1, 2))),
         RMul(m[1][3], Mat3cofactor(m, 1, 3)))

minor(m, r, c) == Mat3determinant(submatrix(m, 4, r, c))

cofactor(m, r, c) ==
    IF (r + c) % 2 = 1 THEN RMul(minor(m, r, c), R(-1)) ELSE minor(m, r, c)

determinant(m) ==
    RAdd(RAdd(RAdd(RMul(m[1][1], cofactor(m, 1, 1)),
                   RMul(m[1][2], cofactor(m, 1, 2))),
              RMul(m[1][3], cofactor(m, 1, 3))),
         RMul(m[1][4], cofactor(m, 1, 4)))

\* the cofactors transposed, not divided by the determinant
inverseAdjugate(m) ==
    IF determinant(m) = R(0) THEN [ok |-> FALSE, m |-> Mat4IDENTITY]
    ELSE [ok |-> TRUE, m |-> [c \in 1..4 |-> [r \in 1..4 |-> cofactor(m, r, c)]]]

\* Result<Mat4, &str>: [ok |-> TRUE, m |-> inverse] or [ok |-> FALSE]
inverse(m) ==
    LET d == determinant(m)
    IN  IF d = R(0) THEN [ok |-> FALSE, m |-> Mat4IDENTITY]
        ELSE [ok |-> TRUE,
              m |-> [c \in 1..4 |-> [r \in 1..4 |-> RDiv(cofactor(m, r, c), d)]]]

MMul(a, b) ==
    [r \in 1..4 |-> [c \in 1..4 |->
        RAdd(RAdd(RAdd(RMul(a[r][1], b[1][c]), RMul(a[r][2], b[2][c])),
                  RMul(a[r][3], b[3][c])),
             RMul(a[r][4], b[4][c]))]]

MVec(m, v) ==
    LET row(r) == RAdd(RAdd(RAdd(RMul(m[r][1], v.x), RMul(m[r][2], v.y)),
                            RMul(m[r][3], v.z)),
                       RMul(m[r][4], v.w))
    IN  Vec4new(row(1), row(2), row(3), row(4))

----------------------------------------------------------------------------
(* Ray                                                                     *)

Ray(origin, direction) == [origin |-> origin, direction |-> direction]
position(r, t) == VAdd(r.origin, VMul(r.direction, t))
RayTransform(r, m) == Ray(MVec(m, r.origin), MVec(m, r.direction))

----------------------------------------------------------------------------
(* Material, PointLight                                                    *)

Material(color, ambient, diffuse, specular, shininess, reflectivness, transparency, refractive_index) ==
    [color |-> color, ambient |-> ambient, diffuse |-> diffuse,
     specular |-> specular, shininess |-> shininess,
     reflectivness |-> reflectivness, transparency |-> transparency,
     refractive_index |-> refractive_index]

PointLight(pos, intensity) == [position |-> pos, intensity |-> intensity]

\* PartialEq for Color: every channel closer than EPSILON
ColorEq(a, b) ==
    /\ RLt(RAbs(RSub(a.r, b.r)), EPSILON)
    /\ RLt(RAbs(RSub(a.g, b.g)), EPSILON)
    /\ RLt(RAbs(RSub(a.b, b.b)), EPSILON)

\* derived PartialEq for Material
MaterialEq(a, b) ==
    /\ ColorEq(a.color, b.color)
    /\ a.ambient = b.ambient /\ a.diffuse = b.diffuse
    /\ a.specular = b.specular /\ a.shininess = b.shininess
    /\ a.reflectivness = b.reflectivness /\ a.transparency = b.transparency
    /\ a.refractive_index = b.refractive_index

\* f64::powf for a whole exponent
RECURSIVE powf(_, _)
powf(a, n) ==
    IF n = 0 \/ a = R(1) THEN R(1)
    ELSE IF a = R(0) THEN R(0)
    ELSE RMul(a, powf(a, n - 1))

\* the specular term of Material::lighting with the eye test left out
LightingSpecularUnchecked(m, light, reflect_dot_eye) ==
    CMul(CMul(light.intensity, m.specular), powf(reflect_dot_eye, m.shininess))

\* the specular term of Material::lighting: black when the reflection
\* points away from the eye
LightingSpecular(m, light, reflect_dot_eye) ==
    IF RLt(reflect_dot_eye, R(0)) THEN BLACK
    ELSE CMul(CMul(light.intensity, m.specular), powf(reflect_dot_eye, m.shininess))

\* Material::lighting that takes no notice of in_shadow
MaterialLightingLit(m, p, light, eye_vec, normal, in_shadow) ==
    LET eff_color == CHad(m.color, light.intensity)
        light_dir == normalize(VSub(light.position, p))
        light_dot_normal == dot(light_dir, normal)
        reflect_dot_eye == dot(reflect(VNeg(light_dir), normal), eye_vec)
    IN  CAdd(CAdd(CMul(eff_color, m.ambient),
                  IF RLt(light_dot_normal, R(0)) THEN BLACK
                  ELSE CMul(CMul(eff_color, m.diffuse), light_dot_normal)),
             IF RLt(light_dot_normal, R(0)) THEN BLACK
             ELSE LightingSpecular(m, light, reflect_dot_eye))

\* Material::lighting (no pattern is set: the flat color is used)
MaterialLighting(m, p, light, eye_vec, normal, in_shadow) ==
    LET eff_color == CHad(m.color, light.intensity)
        light_dir == normalize(VSub(light.position, p))
        ambient == CMul(eff_color, m.ambient)
        light_dot_normal == dot(light_dir, normal)
        reflect_dir == reflect(VNeg(light_dir), normal)
        reflect_dot_eye == dot(reflect_dir, eye_vec)
        diffuse == IF RLt(light_dot_normal, R(0)) THEN BLACK
                   ELSE CMul(CMul(eff_color, m.diffuse), light_dot_normal)
        specular == IF RLt(light_dot_normal, R(0)) THEN BLACK
                    ELSE LightingSpecular(m, light, reflect_dot_eye)
    IN  IF in_shadow THEN ambient
        ELSE CAdd(CAdd(ambient, diffuse), specular)

----------------------------------------------------------------------------
(* Shapes: Plane and Cube                                                  *)

Shape(kind, uid, transform, inverse_transform, material) ==
    [kind |-> kind, uid |-> uid, transform |-> transform,
     inverse_transform |-> inverse_transform, material |-> material]

\* PartialEq for BoxShape: box_eq downcasts to the same kind, then the
\* shape's own PartialEq compares uid, transform and material
ShapeEqUidOnly(a, b) == a.kind = b.kind /\ a.uid = b.uid

ShapeEq(a, b) ==
    /\ a.kind = b.kind
    /\ a.uid = b.uid
    /\ a.transform = b.transform
    /\ MaterialEq(a.material, b.material)

Intersection(object, t) == [object |-> object, t |-> t]

\* PartialEq for Intersection
IntersectionEq(a, b) ==
    RLt(RAbs(RSub(a.t, b.t)), EPSILON) /\ ShapeEq(a.object, b.object)

PlaneLocalIntersect(s, local_ray) ==
    IF RLt(RAbs(local_ray.direction.y), EPSILON) THEN <<>>
    ELSE << Intersection(s, RDiv(RNeg(local_ray.origin.y), local_ray.direction.y)) >>

PlaneLocalNormalAt(s, local_point) == vec(R(0), R(1), R(0))

\* check_axis that returns the pair as it was computed
check_axisUnswapped(origin, direction) ==
    IF RGe(RAbs(direction), EPSILON)
    THEN <<RDiv(RSub(R(-1), origin), direction), RDiv(RSub(R(1), origin), direction)>>
    ELSE <<RMul(RSub(R(-1), origin), INFINITY), RMul(RSub(R(1), origin), INFINITY)>>

\* Cube::check_axis
check_axis(origin, direction) ==
    LET tmin_num == RSub(R(-1), origin)
        tmax_num == RSub(R(1), origin)
        tmin == IF RGe(RAbs(direction), EPSILON) THEN RDiv(tmin_num, direction)
                ELSE RMul(tmin_num, INFINITY)
        tmax == IF RGe(RAbs(direction), EPSILON) THEN RDiv(tmax_num, direction)
                ELSE RMul(tmax_num, INFINITY)
    IN  IF RGt(tmin, tmax) THEN <<tmax, tmin>> ELSE <<tmin, tmax>>

CubeLocalIntersect(s, local_ray) ==
    LET ax == check_axis(local_ray.origin.x, local_ray.direction.x)
        ay == check_axis(local_ray.origin.y, local_ray.direction.y)
        az == check_axis(local_ray.origin.z, local_ray.direction.z)
        tmin == RMax(RMax(ax[1], ay[1]), az[1])
        tmax == RMin(RMin(ax[2], ay[2]), az[2])
    IN  IF RGt(tmin, tmax) THEN <<>>
        ELSE << Intersection(s, tmin), Intersection(s, tmax) >>

CubeLocalNormalAt(s, local_point) ==
    LET max_c == RMax(RAbs(local_point.x), RMax(RAbs(local_point.y), RAbs(local_point.z)))
    IN  IF max_c = RAbs(local_point.x) THEN vec(local_point.x, R(0), R(0))
        ELSE IF max_c = RAbs(local_point.y) THEN vec(R(0), local_point.y, R(0))
        ELSE vec(R(0), R(0), local_point.z)

local_intersect(s, local_ray) ==
    IF s.kind = "plane" THEN PlaneLocalIntersect(s, local_ray)
    ELSE CubeLocalIntersect(s, local_ray)

local_normal_at(s, local_point) ==
    IF s.kind = "plane" THEN PlaneLocalNormalAt(s, local_point)
    ELSE CubeLocalNormalAt(s, local_point)

\* an intersect whose intersections hold shapes built anew, with a uid of
\* their own
intersectRebuilt(s, world_ray) ==
    LET found == local_intersect(s, RayTransform(world_ray, s.inverse_transform))
    IN  [k \in 1..Len(found) |-> [found[k] EXCEPT !.object.uid = @ + 1]]

\* Shape::intersect: the ray is taken to object space by the cached inverse
intersect(s, world_ray) ==
    local_intersect(s, RayTransform(world_ray, s.inverse_transform))

\* Shape::normal_at
normal_at(s, world_point) ==
    LET object_normal == local_normal_at(s, MVec(s.inverse_transform, world_point))
        world_normal == MVec(transpose(s.inverse_transform), object_normal)
    IN  normalize([world_normal EXCEPT !.w = R(0)])

----------------------------------------------------------------------------
(* Intersections                                                           *)

\* an insertion that puts an element before the elements equal to it
RECURSIVE InsertByTBeforeEqual(_, _)
InsertByTBeforeEqual(sorted, i) ==
    IF sorted = <<>> THEN <<i>>
    ELSE IF RLe(i.t, Head(sorted).t) THEN <<i>> \o sorted
    ELSE <<Head(sorted)>> \o InsertByTBeforeEqual(Tail(sorted), i)

\* slice::sort_by is a stable sort: an element goes after every element
\* that does not compare greater than it
RECURSIVE InsertByT(_, _)
InsertByT(sorted, i) ==
    IF sorted = <<>> THEN <<i>>
    ELSE IF RLt(i.t, Head(sorted).t) THEN <<i>> \o sorted
    ELSE <<Head(sorted)>> \o InsertByT(Tail(sorted), i)

RECURSIVE SortFrom(_, _)
SortFrom(done, rest) ==
    IF rest = <<>> THEN done
    ELSE SortFrom(InsertByT(done, Head(rest)), Tail(rest))

\* a sort that leaves the elements where they are
sortAsIs(inner) == inner

sort(inner) == SortFrom(<<>>, inner)

\* hit() that lets t = 0 through as a miss
hitStrict(inner) ==
    IF \E k \in 1..Len(inner) : RGt(inner[k].t, R(0))
    THEN CHOOSE k \in 1..Len(inner) :
            /\ RGt(inner[k].t, R(0))
            /\ \A j \in 1..(k - 1) : ~RGt(inner[j].t, R(0))
    ELSE 0

\* Intersections::hit: index of the first element with t >= 0, 0 for None
hit(inner) ==
    IF \E k \in 1..Len(inner) : RGe(inner[k].t, R(0))
    THEN CHOOSE k \in 1..Len(inner) :
            /\ RGe(inner[k].t, R(0))
            /\ \A j \in 1..(k - 1) : ~RGe(inner[j].t, R(0))
    ELSE 0

----------------------------------------------------------------------------
(* PreCompute                                                              *)

RemoveAt(seq, k) == SubSeq(seq, 1, k - 1) \o SubSeq(seq, k + 1, Len(seq))

\* containers.iter().position(|x| x == &object): 0 for None
ContainerPosition(containers, object) ==
    IF \E k \in 1..Len(containers) : ShapeEq(containers[k], object)
    THEN CHOOSE k \in 1..Len(containers) :
            /\ ShapeEq(containers[k], object)
            /\ \A j \in 1..(k - 1) : ~ShapeEq(containers[j], object)
    ELSE 0

\* remove the object if it is in the list, push it otherwise
ToggleContainer(containers, object) ==
    LET index == ContainerPosition(containers, object)
    IN  IF index # 0 THEN RemoveAt(containers, index)
        ELSE Append(containers, object)

InnermostIndex(containers) ==
    IF containers = <<>> THEN R(1)
    ELSE containers[Len(containers)].material.refractive_index

\* the n1 / n2 loop of PreCompute::new; n1 and n2 start at 0.0
RECURSIVE RefractiveScan(_, _, _, _, _)
RefractiveScan(list, k, i, containers, n1) ==
    IF k > Len(list) THEN [n1 |-> n1, n2 |-> R(0)]
    ELSE LET xi == list[k]
             target == IntersectionEq(xi, i)
             new_n1 == IF target THEN InnermostIndex(containers) ELSE n1
             toggled == ToggleContainer(containers, xi.object)
         IN  IF target THEN [n1 |-> new_n1, n2 |-> InnermostIndex(toggled)]
             ELSE RefractiveScan(list, k + 1, i, toggled, new_n1)

\* PreCompute::new that sets the inside flag and keeps the normal of the shape
PreComputeUnflipped(i, r, list) ==
    LET p == position(r, i.t)
        normal == normal_at(i.object, p)
        e == VNeg(r.direction)
        n == RefractiveScan(list, 1, i, <<>>, R(0))
    IN  [t |-> i.t, object |-> i.object, point |-> p, eye_vec |-> e,
         normal |-> normal, inside |-> RLt(dot(normal, e), R(0)),
         over_point |-> VAdd(p, VMul(normal, EPSILON)),
         under_point |-> VSub(p, VMul(normal, EPSILON)),
         reflect_vec |-> reflect(r.direction, normal),
         n1 |-> n.n1, n2 |-> n.n2]

\* PreCompute::new(i, r, Some(list))
PreCompute(i, r, list) ==
    LET p == position(r, i.t)
        shape_normal == normal_at(i.object, p)
        e == VNeg(r.direction)
        inside == RLt(dot(shape_normal, e), R(0))
        normal == IF inside THEN VNeg(shape_normal) ELSE shape_normal
        n == RefractiveScan(list, 1, i, <<>>, R(0))
    IN  [t |-> i.t, object |-> i.object, point |-> p, eye_vec |-> e,
         normal |-> normal, inside |-> inside,
         over_point |-> VAdd(p, VMul(normal, EPSILON)),
         under_point |-> VSub(p, VMul(normal, EPSILON)),
         reflect_vec |-> reflect(r.direction, normal),
         n1 |-> n.n1, n2 |-> n.n2]

\* PreCompute::lighting
CompsLighting(comps, light, in_shadow) ==
    MaterialLighting(comps.object.material, comps.over_point, light,
                     comps.eye_vec, comps.normal, in_shadow)

\* PreCompute::get_snells_law_value
get_snells_law_value(comps) ==
    LET n_ratio == RDiv(comps.n1, comps.n2)
        cos_i == dot(comps.eye_vec, comps.normal)
    IN  RMul(RMul(n_ratio, n_ratio), RSub(R(1), RMul(cos_i, cos_i)))

\* PreCompute::is_reflective_and_transparent
is_reflective_and_transparent(comps) ==
    /\ RGt(comps.object.material.reflectivness, R(0))
    /\ RGt(comps.object.material.transparency, R(0))

\* PreCompute::get_refracted_ray: None (ok = FALSE) on total internal
\* reflection, else the ray from the under-point along the refracted direction
get_refracted_ray(comps) ==
    LET n_ratio == RDiv(comps.n1, comps.n2)
        cos_i == dot(comps.eye_vec, comps.normal)
        sin2_t == get_snells_law_value(comps)
        cos_t == RSqrt(RSub(R(1), sin2_t))
        direction == VSub(VMul(comps.normal, RSub(RMul(n_ratio, cos_i), cos_t)),
                          VMul(comps.eye_vec, n_ratio))
    IN  IF RGe(sin2_t, R(1)) THEN [ok |-> FALSE, ray |-> Ray(comps.under_point, comps.eye_vec)]
        ELSE [ok |-> TRUE, ray |-> Ray(comps.under_point, direction)]

\* PreCompute::schlick: the Schlick approximation of the Fresnel reflectance
schlick(comps) ==
    LET cos_i == dot(comps.eye_vec, comps.normal)
        n == RDiv(comps.n1, comps.n2)
        sin2_t == RMul(RMul(n, n), RSub(R(1), RMul(cos_i, cos_i)))
        total == RGt(comps.n1, comps.n2) /\ RGt(sin2_t, R(1))
        cos == IF RGt(comps.n1, comps.n2) THEN RSqrt(RSub(R(1), sin2_t)) ELSE cos_i
        r0root == RDiv(RSub(comps.n1, comps.n2), RAdd(comps.n1, comps.n2))
        r0 == RMul(r0root, r0root)
    IN  IF total THEN R(1)
        ELSE RAdd(r0, RMul(RSub(R(1), r0), powf(RSub(R(1), cos), 5)))

----------------------------------------------------------------------------
(* World: the pure parts                                                   *)

RECURSIVE AppendAll(_, _, _)
AppendAll(objs, k, ray) ==
    IF k > Len(objs) THEN <<>>
    ELSE intersect(objs[k], ray) \o AppendAll(objs, k + 1, ray)

\* World::intersect without its closing sort
WorldIntersectUnsorted(objs, ray) == AppendAll(objs, 1, ray)

\* World::intersect
WorldIntersect(objs, ray) == sort(AppendAll(objs, 1, ray))

\* the shadow test of one light in World::is_shadowed
LightBlocked(objs, light, p) ==
    \E p_to_l \in {VSub(light.position, p)} :
    \E inner \in {WorldIntersect(objs, Ray(p, normalize(p_to_l)))} :
    \E h \in {hit(inner)} :
        h # 0 /\ RLt(inner[h].t, magnitude(p_to_l))

\* World::is_shadowed: true as soon as one light of the world is blocked
is_shadowed(objs, lts, p) ==
    \E l \in 1..Len(lts) : LightBlocked(objs, lts[l], p)

\* the direct illumination loop of World::shade_hit
RECURSIVE SumLights(_, _, _, _)
SumLights(comps, lts, l, shadowed) ==
    IF l > Len(lts) THEN BLACK
    ELSE CAdd(CompsLighting(comps, lts[l], shadowed),
              SumLights(comps, lts, l + 1, shadowed))

DirectLight(objs, lts, comps) ==
    SumLights(comps, lts, 1, is_shadowed(objs, lts, comps.over_point))

\* reflected_color without the test of the material
ReflectedIsBlackDepthOnly(comps, max_reflections) ==
    max_reflections <= 0

\* the base case of World::reflected_color
ReflectedIsBlack(comps, max_reflections) ==
    RLe(comps.object.material.reflectivness, R(0)) \/ max_reflections <= 0

\* refracted_color without the test of the depth
RefractedIsBlackAnyDepth(comps, max_refractions) ==
    RLe(comps.object.material.transparency, R(0))

\* the base case of World::refracted_color
RefractedIsBlack(comps, max_refractions) ==
    RLe(comps.object.material.transparency, R(0)) \/ max_refractions <= 0

\* a recursive call that passes its own depth on
ChildDepthSame(max_reflections) == max_reflections

\* the depth reflected_color and refracted_color give the color_at they call
ChildDepth(max_reflections) == max_reflections - 1

\* color_at handing PreCompute::new no intersection list
ColorAtCompsAlone(inner, h, r) == PreCompute(inner[h], r, <<inner[h]>>)

\* the PreCompute::new call of World::color_at
ColorAtComps(inner, h, r) == PreCompute(inner[h], r, inner)

\* shade_hit without the Schlick branch
ShadeHitResultPlain(comps, color, reflected, refracted) ==
    CAdd(CAdd(color, reflected), refracted)

\* the closing expression of World::shade_hit
ShadeHitResult(comps, color, reflected, refracted) ==
    IF is_reflective_and_transparent(comps)
    THEN LET reflectance == schlick(comps)
         IN  CAdd(CAdd(color, CMul(reflected, reflectance)),
                  CMul(refracted, RSub(R(1), reflectance)))
    ELSE CAdd(CAdd(color, reflected), refracted)

\* World::color_at as a function of the world, the ray and the depth
RECURSIVE color_at(_, _, _, _)
color_at(objs, lts, r, max_reflections) ==
    LET inner == WorldIntersect(objs, r)
        h == hit(inner)
        comps == ColorAtComps(inner, h, r)
        m == comps.object.material
        reflected ==
            IF ReflectedIsBlack(comps, max_reflections) THEN BLACK
            ELSE CMul(color_at(objs, lts, Ray(comps.over_point, comps.reflect_vec),
                               ChildDepth(max_reflections)),
                      m.reflectivness)
        refracted ==
            IF RefractedIsBlack(comps, max_reflections) THEN BLACK
            ELSE IF ~get_refracted_ray(comps).ok THEN BLACK
            ELSE CMul(color_at(objs, lts, get_refracted_ray(comps).ray,
                               ChildDepth(max_reflections)),
                      m.transparency)
    IN  IF h = 0 THEN BLACK
        ELSE ShadeHitResult(comps, DirectLight(objs, lts, comps), reflected, refracted)

----------------------------------------------------------------------------
(* Bounds and the inputs the scenes are built from                         *)

MaxObjects == 2
MaxLights == 2
MaxDepth == 2

Matte  == Material(WHITE, Q(1, 2), Q(1, 2), Q(1, 2), 2, R(0), R(0), R(1))
Mirror == Material(WHITE, Q(1, 2), Q(1, 2), Q(1, 2), 2, Q(1, 2), R(0), R(1))
Glass  == Material(WHITE, Q(1, 2), Q(1, 2), Q(1, 2), 2, Q(1, 2), Q(1, 2), Q(3, 2))
Clear  == Material(WHITE, Q(1, 2), Q(1, 2), Q(1, 2), 2, R(0), R(1), R(2))

\* what add_object is called with: kind, transform, material
ShapeInputs ==
    { <<"plane", translation(R(0), R(-3), R(0)), Mirror>>,
      <<"plane", translation(R(0), R(3), R(0)), Mirror>>,
      <<"cube", scaling(R(2), R(2), R(2)), Glass>>,
      <<"cube", Mat4IDENTITY, Clear>>,
      <<"cube", Mat4IDENTITY, Matte>> }

LightInputs ==
    { PointLight(point(R(0), R(5), R(0)), WHITE),
      PointLight(point(R(0), R(-5), R(0)), WHITE) }

RayInputs ==
    { Ray(point(R(0), R(0), R(0)), vec(R(0), R(1), R(0))),
      Ray(point(R(0), R(0), R(0)), vec(R(0), R(-1), R(0))),
      Ray(point(R(0), R(4), R(0)), vec(R(0), R(-1), R(0))) }

----------------------------------------------------------------------------
(* Scene construction                                                      *)

\* Plane::new / Cube::new with Some(transform), Some(material); the
\* constructor unwraps the inverse, so it only completes for an invertible one
ShapeNew(kind, transform, material, uid) ==
    Shape(kind, uid, transform, inverse(transform).m, material)

\* util::uid::fetch_uid: UID_COUNTER.fetch_add(1) hands out the old value
fetch_uidConstant(counter) == [uid |-> 0, next |-> counter + 1]

fetch_uid(counter) == [uid |-> counter, next |-> counter + 1]

\* Shape::new followed by World::add_object
AddObject(in) ==
    /\ stack = <<>> /\ ret = <<>>
    /\ Len(objects) < MaxObjects
    /\ inverse(in[2]).ok
    /\ objects' = Append(objects, ShapeNew(in[1], in[2], in[3], fetch_uid(UID_COUNTER).uid))
    /\ UID_COUNTER' = fetch_uid(UID_COUNTER).next
    /\ UNCHANGED <<lights, stack, ret, xs, shape, pre, lit, image, local, pat, calc, canvas, threads>>

\* World::add_light
AddLight(l) ==
    /\ stack = <<>> /\ ret = <<>>
    /\ Len(lights) < MaxLights
    /\ lights' = Append(lights, l)
    /\ UNCHANGED <<objects, UID_COUNTER, stack, ret, xs, shape, pre, lit, image, local, pat, calc, canvas, threads>>

----------------------------------------------------------------------------
(* World::color_at and the calls below it, one frame per color_at call     *)

NoComps == <<>>

Frame(ray, depth) ==
    [ray |-> ray, depth |-> depth, pc |-> "color_at", inner |-> <<>>, h |-> 0,
     comps |-> NoComps, color |-> BLACK, reflected |-> BLACK,
     refracted |-> BLACK, kids |-> 0]

Top == stack[Len(stack)]

\* the caller receives the value of the color_at call that ends
Resume(parent, value) ==
    IF parent.pc = "reflected_wait"
    THEN [parent EXCEPT
            !.reflected = CMul(value, parent.comps.object.material.reflectivness),
            !.pc = "refracted_color"]
    ELSE [parent EXCEPT
            !.refracted = CMul(value, parent.comps.object.material.transparency),
            !.pc = "shade_hit_end"]

Return(frame, value) ==
    /\ ret' = [frame EXCEPT !.pc = "returned"] @@ [value |-> value, level |-> Len(stack)]
    /\ stack' = IF Len(stack) = 1 THEN <<>>
                ELSE [SubSeq(stack, 1, Len(stack) - 1) EXCEPT
                        ![Len(stack) - 1] = Resume(stack[Len(stack) - 1], value)]

\* a caller of the library casts a ray
ColorAt(r, depth) ==
    /\ stack = <<>>
    /\ stack' = <<Frame(r, depth)>>
    /\ ret' = <<"running">>
    /\ UNCHANGED <<objects, lights, UID_COUNTER, xs, shape, pre, lit, image, local, pat, calc, canvas, threads>>

\* color_at: no hit, the color is black
ColorAtMiss ==
    /\ stack # <<>> /\ Top.pc = "color_at"
    /\ \E inner \in {WorldIntersect(objects, Top.ray)} :
          /\ hit(inner) = 0
          /\ Return([Top EXCEPT !.inner = inner], BLACK)
    /\ UNCHANGED <<objects, lights, UID_COUNTER, xs, shape, pre, lit, image, local, pat, calc, canvas, threads>>

\* color_at: a hit; PreCompute::new and the direct illumination of shade_hit
ColorAtHit ==
    /\ stack # <<>> /\ Top.pc = "color_at"
    /\ \E inner \in {WorldIntersect(objects, Top.ray)} :
       \E h \in {hit(inner)} :
          /\ h # 0
          /\ \E comps \in {ColorAtComps(inner, h, Top.ray)} :
                stack' = [stack EXCEPT ![Len(stack)] =
                    [@ EXCEPT !.inner = inner, !.h = h, !.comps = comps,
                              !.color = DirectLight(objects, lights, comps),
                              !.pc = "reflected_color"]]
    /\ UNCHANGED <<objects, lights, UID_COUNTER, ret, xs, shape, pre, lit, image, local, pat, calc, canvas, threads>>

\* reflected_color: the base case
ReflectedBlack ==
    /\ stack # <<>> /\ Top.pc = "reflected_color"
    /\ ReflectedIsBlack(Top.comps, Top.depth)
    /\ stack' = [stack EXCEPT ![Len(stack)] =
                    [@ EXCEPT !.reflected = BLACK, !.pc = "refracted_color"]]
    /\ UNCHANGED <<objects, lights, UID_COUNTER, ret, xs, shape, pre, lit, image, local, pat, calc, canvas, threads>>

\* reflected_color: the recursive color_at call
ReflectedCall ==
    /\ stack # <<>> /\ Top.pc = "reflected_color"
    /\ ~ReflectedIsBlack(Top.comps, Top.depth)
    /\ stack' = Append([stack EXCEPT ![Len(stack)] =
                           [@ EXCEPT !.pc = "reflected_wait", !.kids = @ + 1]],
                       Frame(Ray(Top.comps.over_point, Top.comps.reflect_vec),
                             ChildDepth(Top.depth)))
    /\ UNCHANGED <<objects, lights, UID_COUNTER, ret, xs, shape, pre, lit, image, local, pat, calc, canvas, threads>>

\* refracted_color: the base case and total internal reflection
RefractedBlack ==
    /\ stack # <<>> /\ Top.pc = "refracted_color"
    /\ IF RefractedIsBlack(Top.comps, Top.depth) THEN TRUE
       ELSE ~get_refracted_ray(Top.comps).ok
    /\ stack' = [stack EXCEPT ![Len(stack)] =
                    [@ EXCEPT !.refracted = BLACK, !.pc = "shade_hit_end"]]
    /\ UNCHANGED <<objects, lights, UID_COUNTER, ret, xs, shape, pre, lit, image, local, pat, calc, canvas, threads>>

\* refracted_color calling color_at whatever its depth
RefractedCallAnyDepth ==
    /\ stack # <<>> /\ Top.pc = "refracted_color"
    /\ ~RLe(Top.comps.object.material.transparency, R(0))
    /\ get_refracted_ray(Top.comps).ok
    /\ stack' = Append([stack EXCEPT ![Len(stack)] =
                           [@ EXCEPT !.pc = "refracted_wait", !.kids = @ + 1]],
                       Frame(get_refracted_ray(Top.comps).ray, ChildDepth(Top.depth)))
    /\ UNCHANGED <<objects, lights, UID_COUNTER, ret, xs, shape, pre, lit, image, local, pat, calc, canvas, threads>>

\* refracted_color: the recursive color_at call
RefractedCall ==
    /\ stack # <<>> /\ Top.pc = "refracted_color"
    /\ ~RefractedIsBlack(Top.comps, Top.depth)
    /\ get_refracted_ray(Top.comps).ok
    /\ stack' = Append([stack EXCEPT ![Len(stack)] =
                           [@ EXCEPT !.pc = "refracted_wait", !.kids = @ + 1]],
                       Frame(get_refracted_ray(Top.comps).ray, ChildDepth(Top.depth)))
    /\ UNCHANGED <<objects, lights, UID_COUNTER, ret, xs, shape, pre, lit, image, local, pat, calc, canvas, threads>>

\* the end of shade_hit, whose value color_at returns
ShadeHitReturn ==
    /\ stack # <<>> /\ Top.pc = "shade_hit_end"
    /\ Return(Top, ShadeHitResult(Top.comps, Top.color, Top.reflected, Top.refracted))
    /\ UNCHANGED <<objects, lights, UID_COUNTER, xs, shape, pre, lit, image, local, pat, calc, canvas, threads>>

----------------------------------------------------------------------------
(* Intersections: a collection a caller fills, sorts and queries           *)

MaxXs == 3

TInputs == {R(-2), R(-1), R(0), R(1), R(2)}

TestObject == Shape("plane", 0, Mat4IDENTITY, Mat4IDENTITY, Matte)

\* Intersections::new
XsEmpty == [inner |-> <<>>, last |-> "new", h |-> -1]

\* Intersections::push
XsPush(t) ==
    /\ Len(xs.inner) < MaxXs
    /\ xs' = [inner |-> Append(xs.inner, Intersection(TestObject, t)),
              last |-> "push", h |-> -1]
    /\ UNCHANGED <<objects, lights, UID_COUNTER, stack, ret, shape, pre, lit, image, local, pat, calc, canvas, threads>>

\* Intersections::append: the other collection is drained into this one
XsAppend(t1, t2) ==
    /\ Len(xs.inner) + 2 <= MaxXs
    /\ xs' = [inner |-> xs.inner \o <<Intersection(TestObject, t1),
                                      Intersection(TestObject, t2)>>,
              last |-> "append", h |-> -1]
    /\ UNCHANGED <<objects, lights, UID_COUNTER, stack, ret, shape, pre, lit, image, local, pat, calc, canvas, threads>>

\* Intersections::sort
XsSort ==
    /\ xs' = [inner |-> sort(xs.inner), last |-> "sort", h |-> -1]
    /\ UNCHANGED <<objects, lights, UID_COUNTER, stack, ret, shape, pre, lit, image, local, pat, calc, canvas, threads>>

\* Intersections::hit: h is the index of the element returned, 0 for None
XsHit ==
    /\ xs' = [xs EXCEPT !.h = hit(xs.inner)]
    /\ UNCHANGED <<objects, lights, UID_COUNTER, stack, ret, shape, pre, lit, image, local, pat, calc, canvas, threads>>

\* Intersections::clear
XsClear ==
    /\ xs' = [inner |-> <<>>, last |-> "clear", h |-> -1]
    /\ UNCHANGED <<objects, lights, UID_COUNTER, stack, ret, shape, pre, lit, image, local, pat, calc, canvas, threads>>

InitXs ==
    /\ calc = <<>> /\ canvas = <<>> /\ threads = <<>>
    /\ objects = <<>> /\ lights = <<>> /\ UID_COUNTER = 0
    /\ stack = <<>> /\ ret = <<>> /\ shape = <<>> /\ pre = <<>>
    /\ lit = <<>> /\ image = <<>> /\ local = <<>> /\ pat = <<>>
    /\ xs = XsEmpty

NextXs ==
    \/ \E t \in TInputs : XsPush(t)
    \/ \E t1, t2 \in TInputs : XsAppend(t1, t2)
    \/ XsSort
    \/ XsHit
    \/ XsClear

SpecXs == InitXs /\ [][NextXs]_vars

----------------------------------------------------------------------------
(* PreCompute::new on the intersections of a ray, for every target index   *)

MaxPreObjects == 2

Dense == Material(WHITE, Q(1, 2), Q(1, 2), Q(1, 2), 2, R(0), R(1), Q(5, 2))

\* nested and overlapping transparent cubes, and a slab thinner than EPSILON
PreShapeInputs ==
    { <<"cube", scaling(R(2), R(2), R(2)), Glass>>,
      <<"cube", Mat4IDENTITY, Clear>>,
      <<"cube", translation(R(0), R(1), R(0)), Dense>>,
      <<"cube", scaling(R(1), Q(1, 400000), R(1)), Clear>> }

PreRayInputs ==
    { Ray(point(R(0), R(-4), R(0)), vec(R(0), R(1), R(0))),
      Ray(point(R(0), R(0), R(0)), vec(R(0), R(1), R(0))) }

PreEmpty == [objs |-> <<>>, ray |-> <<>>, list |-> <<>>, k |-> 0, comps |-> NoComps]

\* a shape is constructed and put in the scene
PreAddObject(in) ==
    /\ pre.ray = <<>>
    /\ Len(pre.objs) < MaxPreObjects
    /\ inverse(in[2]).ok
    /\ pre' = [pre EXCEPT !.objs = Append(@, ShapeNew(in[1], in[2], in[3], fetch_uid(UID_COUNTER).uid))]
    /\ UID_COUNTER' = fetch_uid(UID_COUNTER).next
    /\ UNCHANGED <<objects, lights, stack, ret, xs, shape, lit, image, local, pat, calc, canvas, threads>>

\* World::intersect gives the sorted list of the ray
PreIntersect(r) ==
    /\ pre.ray = <<>>
    /\ pre.objs # <<>>
    /\ pre' = [pre EXCEPT !.ray = r, !.list = WorldIntersect(pre.objs, r)]
    /\ UNCHANGED <<objects, lights, UID_COUNTER, stack, ret, xs, shape, lit, image, local, pat, calc, canvas, threads>>

\* PreCompute::new(list[k], ray, Some(list))
PreComputeNew(k) ==
    /\ pre.ray # <<>>
    /\ k \in 1..Len(pre.list)
    /\ pre' = [pre EXCEPT !.k = k, !.comps = PreCompute(pre.list[k], pre.ray, pre.list)]
    /\ UNCHANGED <<objects, lights, UID_COUNTER, stack, ret, xs, shape, lit, image, local, pat, calc, canvas, threads>>

InitPre ==
    /\ calc = <<>> /\ canvas = <<>> /\ threads = <<>>
    /\ objects = <<>> /\ lights = <<>> /\ UID_COUNTER = 0
    /\ stack = <<>> /\ ret = <<>> /\ shape = <<>> /\ xs = <<>>
    /\ lit = <<>> /\ image = <<>> /\ local = <<>> /\ pat = <<>>
    /\ pre = PreEmpty

NextPre ==
    \/ \E in \in PreShapeInputs : PreAddObject(in)
    \/ \E r \in PreRayInputs : PreIntersect(r)
    \/ \E k \in 1..(2 * MaxPreObjects) : PreComputeNew(k)

SpecPre == InitPre /\ [][NextPre]_vars

----------------------------------------------------------------------------
(* The life of one shape: construction, set_transform, transform           *)

MaxShapeOps == 3

MatInputs ==
    { translation(R(0), R(3), R(0)),
      scaling(R(2), R(2), R(2)),
      scaling(R(1), R(0), R(1)) }

ShapeKinds == {"plane", "cube"}

MaterialInputs == {Matte, Mirror}

\* a shape, a clone of it, the number of operations applied to it, whether
\* one of them panicked, and the transform it held when it was intersected
ShapeState(s, copy, ops, panicked, met) ==
    [s |-> s, copy |-> copy, ops |-> ops, panicked |-> panicked, met |-> met]

\* Shape::new(Some(transform), None): transform.inverse().unwrap() panics
\* for a transform that has no inverse
ShapeConstruct(kind, transform) ==
    /\ shape = <<>>
    /\ IF inverse(transform).ok
       THEN shape' = ShapeState(ShapeNew(kind, transform, Matte, fetch_uid(UID_COUNTER).uid),
                                <<>>, 0, FALSE, <<>>)
       ELSE shape' = ShapeState(<<>>, <<>>, 0, TRUE, <<>>)
    /\ UID_COUNTER' = IF inverse(transform).ok THEN fetch_uid(UID_COUNTER).next
                      ELSE UID_COUNTER
    /\ UNCHANGED <<objects, lights, stack, ret, xs, pre, lit, image, local, pat, calc, canvas, threads>>

\* Shape::default(): identity transform and identity inverse
ShapeDefault(kind) ==
    /\ shape = <<>>
    /\ shape' = ShapeState(Shape(kind, fetch_uid(UID_COUNTER).uid, Mat4IDENTITY,
                                 Mat4IDENTITY, Matte), <<>>, 0, FALSE, <<>>)
    /\ UID_COUNTER' = fetch_uid(UID_COUNTER).next
    /\ UNCHANGED <<objects, lights, stack, ret, xs, pre, lit, image, local, pat, calc, canvas, threads>>

\* Shape::set_transform: the transform is stored, then the inverse unwrapped
set_transform(s, m) ==
    [s EXCEPT !.transform = m, !.inverse_transform = inverse(m).m]

SetTransform(m) ==
    /\ shape # <<>> /\ ~shape.panicked /\ shape.ops < MaxShapeOps
    /\ shape' = [shape EXCEPT !.s = set_transform(shape.s, m), !.ops = @ + 1,
                              !.panicked = ~inverse(m).ok]
    /\ UNCHANGED <<objects, lights, UID_COUNTER, stack, ret, xs, pre, lit, image, local, pat, calc, canvas, threads>>

\* Shape::transform: self.transform = m * self.transform
transform(s, m) == [s EXCEPT !.transform = MMul(m, s.transform)]

Transform(m) ==
    /\ shape # <<>> /\ ~shape.panicked /\ shape.ops < MaxShapeOps
    /\ shape' = [shape EXCEPT !.s = transform(shape.s, m), !.ops = @ + 1]
    /\ UNCHANGED <<objects, lights, UID_COUNTER, stack, ret, xs, pre, lit, image, local, pat, calc, canvas, threads>>

\* Shape::set_material
set_material(s, material) == [s EXCEPT !.material = material]

SetMaterial(material) ==
    /\ shape # <<>> /\ ~shape.panicked /\ shape.ops < MaxShapeOps
    /\ shape' = [shape EXCEPT !.s = set_material(shape.s, material), !.ops = @ + 1]
    /\ UNCHANGED <<objects, lights, UID_COUNTER, stack, ret, xs, pre, lit, image, local, pat, calc, canvas, threads>>

\* Shape::box_clone: a copy of every field, the uid included
box_clone(s) == s

BoxClone ==
    /\ shape # <<>> /\ ~shape.panicked /\ shape.copy = <<>>
    /\ shape' = [shape EXCEPT !.copy = box_clone(shape.s)]
    /\ UNCHANGED <<objects, lights, UID_COUNTER, stack, ret, xs, pre, lit, image, local, pat, calc, canvas, threads>>

\* Shape::intersect on the shape as it is now: nothing looks at the
\* transform again, the cached inverse is used as it stands
ShapeIntersect(r) ==
    /\ shape # <<>> /\ ~shape.panicked
    /\ shape' = [shape EXCEPT !.met = [transform |-> shape.s.transform,
                                       inner |-> intersect(shape.s, r)]]
    /\ UNCHANGED <<objects, lights, UID_COUNTER, stack, ret, xs, pre, lit, image, local, pat, calc, canvas, threads>>

InitShape ==
    /\ calc = <<>> /\ canvas = <<>> /\ threads = <<>>
    /\ objects = <<>> /\ lights = <<>> /\ UID_COUNTER = 0
    /\ stack = <<>> /\ ret = <<>> /\ xs = <<>> /\ pre = <<>>
    /\ lit = <<>> /\ image = <<>> /\ local = <<>> /\ pat = <<>>
    /\ shape = <<>>

NextShape ==
    \/ \E k \in ShapeKinds, m \in MatInputs : ShapeConstruct(k, m)
    \/ \E k \in ShapeKinds : ShapeDefault(k)
    \/ \E m \in MatInputs : SetTransform(m)
    \/ \E m \in MatInputs : Transform(m)
    \/ \E m \in MaterialInputs : SetMaterial(m)
    \/ BoxClone
    \/ ShapeIntersect(Ray(point(R(0), R(4), R(0)), vec(R(0), R(-1), R(0))))

SpecShape == InitShape /\ [][NextShape]_vars

----------------------------------------------------------------------------

----------------------------------------------------------------------------
(* Material::lighting on its own                                           *)

LitMaterials ==
    { Matte,
      Material(rgb(R(1), Q(1, 2), R(0)), Q(1, 10), Q(9, 10), Q(9, 10), 2, R(0), R(0), R(1)),
      Material(rgb(Q(1, 2), Q(1, 2), R(1)), R(1), Q(1, 2), R(0), 1, R(0), R(0), R(1)) }

LitPoints == {point(R(0), R(0), R(0))}

\* above the surface, below it, off the axis, and at the point itself
LitLights ==
    { PointLight(point(R(0), R(5), R(0)), WHITE),
      PointLight(point(R(0), R(-5), R(0)), WHITE),
      PointLight(point(R(3), R(4), R(0)), rgb(Q(1, 2), R(1), R(1))),
      PointLight(point(R(0), R(0), R(0)), WHITE) }

LitEyes ==
    { vec(R(0), R(1), R(0)),
      vec(R(0), R(-1), R(0)),
      vec(Q(-3, 5), Q(4, 5), R(0)) }

LitNormals == {vec(R(0), R(1), R(0)), vec(R(0), R(-1), R(0))}

\* the arguments of a call that has not been made yet
LitArgs(m, p, light, eye_vec, normal, in_shadow) ==
    [m |-> m, p |-> p, light |-> light, eye_vec |-> eye_vec, normal |-> normal,
     in_shadow |-> in_shadow, called |-> FALSE, result |-> BLACK]

\* Material::lighting
Lighting ==
    /\ ~lit.called
    /\ lit' = [lit EXCEPT !.called = TRUE,
                          !.result = MaterialLighting(lit.m, lit.p, lit.light, lit.eye_vec,
                                                      lit.normal, lit.in_shadow)]
    /\ UNCHANGED <<objects, lights, UID_COUNTER, stack, ret, xs, shape, pre, image, local, pat, calc, canvas, threads>>

InitLighting ==
    /\ calc = <<>> /\ canvas = <<>> /\ threads = <<>>
    /\ objects = <<>> /\ lights = <<>> /\ UID_COUNTER = 0
    /\ stack = <<>> /\ ret = <<>> /\ xs = <<>> /\ shape = <<>> /\ pre = <<>>
    /\ image = <<>> /\ local = <<>> /\ pat = <<>>
    /\ lit \in { LitArgs(m, p, light, eye_vec, normal, in_shadow) :
                    m \in LitMaterials, p \in LitPoints, light \in LitLights,
                    eye_vec \in LitEyes, normal \in LitNormals, in_shadow \in BOOLEAN }

NextLighting == Lighting

SpecLighting == InitLighting /\ [][NextLighting]_vars

----------------------------------------------------------------------------
(* local_intersect of Cylinder, Cone and Cube on its own                   *)

\* Cylinder::new and Cone::new with the identity transform: limit_y is the
\* pair (minimum, maximum)
Truncated(kind, limit_y, closed) ==
    [kind |-> kind, uid |-> 0, transform |-> Mat4IDENTITY,
     inverse_transform |-> Mat4IDENTITY, material |-> Matte,
     limit_y |-> limit_y, closed |-> closed]

\* Ray::util_intersection_t_within_rad_1
util_intersection_t_within_rad_1(ray, t) ==
    \E x \in {RAdd(ray.origin.x, RMul(t, ray.direction.x))} :
    \E z \in {RAdd(ray.origin.z, RMul(t, ray.direction.z))} :
        RLe(RAdd(RMul(x, x), RMul(z, z)), R(1))

\* Ray::util_intersection_t_within_radius: the disk test of a cone cap
util_intersection_t_within_radius(ray, t, radius) ==
    \E x \in {RAdd(ray.origin.x, RMul(t, ray.direction.x))} :
    \E z \in {RAdd(ray.origin.z, RMul(t, ray.direction.z))} :
        RLe(RAdd(RMul(x, x), RMul(z, z)), RMul(radius, radius))

\* the y-limit test of a lateral root: y > limit_y.0 && y < limit_y.1
within_limit_y(s, ray, t) ==
    \E y \in {RAdd(ray.origin.y, RMul(t, ray.direction.y))} :
        RGt(y, s.limit_y[1]) /\ RLt(y, s.limit_y[2])

\* t0 and t1 of a quadratic, the smaller one first
QuadraticRoots(a, b, discriminant) ==
    LET t0 == RDiv(RSub(RNeg(b), RSqrt(discriminant)), RMul(R(2), a))
        t1 == RDiv(RAdd(RNeg(b), RSqrt(discriminant)), RMul(R(2), a))
    IN  IF RGt(t0, t1) THEN <<t1, t0>> ELSE <<t0, t1>>

\* the roots that pass the y-limit test, in their order
LimitedRoots(s, ray, roots) == SelectSeq(roots, LAMBDA t : within_limit_y(s, ray, t))

\* Cylinder::intersect_caps: the t of the caps that are hit
CylinderCaps(s, ray) ==
    IF ~s.closed THEN <<>>
    ELSE SelectSeq(<< RDiv(RSub(s.limit_y[1], ray.origin.y), ray.direction.y),
                      RDiv(RSub(s.limit_y[2], ray.origin.y), ray.direction.y) >>,
                   LAMBDA t : util_intersection_t_within_rad_1(ray, t))

CylinderA(ray) ==
    RAdd(RMul(ray.direction.x, ray.direction.x), RMul(ray.direction.z, ray.direction.z))

CylinderB(ray) ==
    RAdd(RMul(RMul(R(2), ray.origin.x), ray.direction.x),
         RMul(RMul(R(2), ray.origin.z), ray.direction.z))

CylinderC(ray) ==
    RSub(RAdd(RMul(ray.origin.x, ray.origin.x), RMul(ray.origin.z, ray.origin.z)), R(1))

Discriminant(a, b, c) == RSub(RMul(b, b), RMul(RMul(R(4), a), c))

\* the t of the wall of the cylinder that Cylinder::local_intersect pushes
CylinderSide(s, ray) ==
    LET a == CylinderA(ray)
        b == CylinderB(ray)
        discriminant == Discriminant(a, b, CylinderC(ray))
    IN  IF RLt(RAbs(a), EPSILON) \/ RLt(discriminant, R(0)) THEN <<>>
        ELSE LimitedRoots(s, ray, QuadraticRoots(a, b, discriminant))

\* Cylinder::local_intersect: the wall first, then the caps; a ray that
\* misses the infinite cylinder returns before the caps are looked at
CylinderLocalIntersect(s, ray) ==
    IF RLt(RAbs(CylinderA(ray)), EPSILON) THEN CylinderCaps(s, ray)
    ELSE IF RLt(Discriminant(CylinderA(ray), CylinderB(ray), CylinderC(ray)), R(0)) THEN <<>>
    ELSE CylinderSide(s, ray) \o CylinderCaps(s, ray)

\* Cone::intersect_caps: the t of the caps that are hit
ConeCaps(s, ray) ==
    IF ~s.closed THEN <<>>
    ELSE LET t_lower == RDiv(RSub(s.limit_y[1], ray.origin.y), ray.direction.y)
             t_upper == RDiv(RSub(s.limit_y[2], ray.origin.y), ray.direction.y)
         IN  (IF util_intersection_t_within_radius(ray, t_lower, RAbs(s.limit_y[1]))
              THEN <<t_lower>> ELSE <<>>)
             \o (IF util_intersection_t_within_radius(ray, t_upper, RAbs(s.limit_y[2]))
                 THEN <<t_upper>> ELSE <<>>)

ConeA(ray) ==
    RAdd(RSub(RMul(ray.direction.x, ray.direction.x), RMul(ray.direction.y, ray.direction.y)),
         RMul(ray.direction.z, ray.direction.z))

ConeB(ray) ==
    RAdd(RSub(RMul(RMul(R(2), ray.origin.x), ray.direction.x),
              RMul(RMul(R(2), ray.origin.y), ray.direction.y)),
         RMul(RMul(R(2), ray.origin.z), ray.direction.z))

ConeC(ray) ==
    RAdd(RSub(RMul(ray.origin.x, ray.origin.x), RMul(ray.origin.y, ray.origin.y)),
         RMul(ray.origin.z, ray.origin.z))

\* the t of the wall of the cone that Cone::local_intersect pushes: the one
\* root of a ray parallel to a half of the cone is pushed as it is
ConeSide(s, ray) ==
    LET a == ConeA(ray)
        b == ConeB(ray)
        c == ConeC(ray)
    IN  IF RLt(RAbs(a), EPSILON)
        THEN (IF RLt(RAbs(b), EPSILON) THEN <<>>
              ELSE << RDiv(RNeg(c), RMul(R(2), b)) >>)
        ELSE IF RLt(Discriminant(a, b, c), R(0)) THEN <<>>
        ELSE LimitedRoots(s, ray, QuadraticRoots(a, b, Discriminant(a, b, c)))

\* Cone::local_intersect
ConeLocalIntersect(s, ray) ==
    IF RLt(RAbs(ConeA(ray)), EPSILON)
    THEN (IF RLt(RAbs(ConeB(ray)), EPSILON) THEN <<>>
          ELSE ConeSide(s, ray) \o ConeCaps(s, ray))
    ELSE IF RLt(Discriminant(ConeA(ray), ConeB(ray), ConeC(ray)), R(0)) THEN <<>>
    ELSE ConeSide(s, ray) \o ConeCaps(s, ray)

LimitInputsY ==
    { <<NEG_INFINITY, INFINITY>>, <<R(1), R(5)>>, <<R(4), R(6)>>, <<Q(-1, 2), Q(1, 2)>> }

CylinderRays ==
    { Ray(point(R(0), R(0), R(-5)), vec(R(0), R(0), R(1))),
      Ray(point(R(0), R(0), R(-5)), vec(R(0), R(1), R(1))),
      Ray(point(R(1), R(0), R(-5)), vec(R(0), R(0), R(1))),
      Ray(point(R(2), R(0), R(-5)), vec(R(0), R(0), R(1))),
      Ray(point(R(0), R(-5), R(0)), vec(R(0), R(1), R(0))),
      Ray(point(R(0), R(3), R(0)), vec(R(1), R(0), R(0))) }

ConeRays ==
    { Ray(point(R(0), R(0), R(-5)), vec(R(0), R(0), R(1))),
      Ray(point(R(0), R(0), R(-5)), vec(R(0), R(1), R(1))),
      Ray(point(R(0), R(3), R(-5)), vec(R(0), R(0), R(1))),
      Ray(point(R(0), R(0), R(-1)), vec(R(0), R(1), R(0))),
      Ray(point(R(0), R(0), R(0)), vec(R(0), R(1), R(1))),
      Ray(point(R(0), R(6), R(0)), vec(R(1), R(0), R(0))) }

\* through two faces, along a face, along an edge, past the cube, from the
\* inside, and across two axes
CubeRays ==
    { Ray(point(R(0), R(0), R(-5)), vec(R(0), R(0), R(1))),
      Ray(point(R(5), R(0), R(0)), vec(R(-1), R(0), R(0))),
      Ray(point(R(1), R(0), R(-5)), vec(R(0), R(0), R(1))),
      Ray(point(R(-1), R(-1), R(-5)), vec(R(0), R(0), R(1))),
      Ray(point(R(2), R(0), R(-5)), vec(R(0), R(0), R(1))),
      Ray(point(R(0), R(0), R(0)), vec(R(0), R(1), R(0))),
      Ray(point(R(-5), R(-5), R(0)), vec(R(1), R(1), R(0))),
      Ray(point(R(-5), R(0), R(0)), vec(R(1), R(1), R(0))),
      Ray(point(R(0), Q(1, 2), R(3)), vec(R(0), R(-1), R(-2))),
      Ray(point(R(0), R(2), R(2)), vec(R(0), R(-1), R(0))) }

\* a shape and a ray in its space, before local_intersect is called: side
\* is the number of leading elements of inner that lie on the wall, axes
\* the three pairs check_axis gave
LocalArgs(s, ray) ==
    [s |-> s, ray |-> ray, called |-> FALSE, inner |-> <<>>, side |-> 0, axes |-> <<>>]

LocalInputs ==
    { LocalArgs(Truncated("cylinder", l, c), r) :
          l \in LimitInputsY, c \in BOOLEAN, r \in CylinderRays }
    \cup { LocalArgs(Truncated("cone", l, c), r) :
          l \in LimitInputsY, c \in BOOLEAN, r \in ConeRays }
    \cup { LocalArgs(Shape("cube", 0, Mat4IDENTITY, Mat4IDENTITY, Matte), r) : r \in CubeRays }

Boxed(s, ts) == [k \in 1..Len(ts) |-> Intersection(s, ts[k])]

CylinderIntersect ==
    /\ ~local.called /\ local.s.kind = "cylinder"
    /\ local' = [local EXCEPT !.called = TRUE,
                   !.inner = Boxed(local.s, CylinderLocalIntersect(local.s, local.ray)),
                   !.side = IF RLt(RAbs(CylinderA(local.ray)), EPSILON) THEN 0
                            ELSE Len(CylinderSide(local.s, local.ray))]
    /\ UNCHANGED <<objects, lights, UID_COUNTER, stack, ret, xs, shape, pre, lit, image, pat, calc, canvas, threads>>

ConeIntersect ==
    /\ ~local.called /\ local.s.kind = "cone"
    /\ local' = [local EXCEPT !.called = TRUE,
                   !.inner = Boxed(local.s, ConeLocalIntersect(local.s, local.ray)),
                   !.side = Len(ConeSide(local.s, local.ray))]
    /\ UNCHANGED <<objects, lights, UID_COUNTER, stack, ret, xs, shape, pre, lit, image, pat, calc, canvas, threads>>

CubeIntersect ==
    /\ ~local.called /\ local.s.kind = "cube"
    /\ local' = [local EXCEPT !.called = TRUE,
                   !.inner = CubeLocalIntersect(local.s, local.ray),
                   !.axes = << check_axis(local.ray.origin.x, local.ray.direction.x),
                               check_axis(local.ray.origin.y, local.ray.direction.y),
                               check_axis(local.ray.origin.z, local.ray.direction.z) >>]
    /\ UNCHANGED <<objects, lights, UID_COUNTER, stack, ret, xs, shape, pre, lit, image, pat, calc, canvas, threads>>

InitLocal ==
    /\ calc = <<>> /\ canvas = <<>> /\ threads = <<>>
    /\ objects = <<>> /\ lights = <<>> /\ UID_COUNTER = 1
    /\ stack = <<>> /\ ret = <<>> /\ xs = <<>> /\ shape = <<>> /\ pre = <<>>
    /\ lit = <<>> /\ image = <<>> /\ pat = <<>>
    /\ local \in LocalInputs

NextLocal ==
    \/ CylinderIntersect
    \/ ConeIntersect
    \/ CubeIntersect

SpecLocal == InitLocal /\ [][NextLocal]_vars

----------------------------------------------------------------------------
(* StripePattern::local_pattern_at on its own                              *)

RED == rgb(R(1), R(0), R(0))
GREEN == rgb(R(0), R(1), R(0))

\* f64::floor of a finite number, as an integer
floor(a) == a[1] \div a[2]

\* StripePattern::new without a transform
StripePatternNew(colors) ==
    [colors |-> colors, transform |-> Mat4IDENTITY, inverse_transform |-> Mat4IDENTITY]

\* StripePattern::local_pattern_at: colors[0] is the first color
local_pattern_at(pattern, local_point) ==
    LET i == Abs(floor(local_point.x)) % Len(pattern.colors)
    IN  pattern.colors[i + 1]

\* one to four stripes
StripeColors ==
    { <<WHITE>>, <<WHITE, BLACK>>, <<RED, GREEN, WHITE>>, <<RED, GREEN, WHITE, BLACK>> }

\* x from -4 to 4 in steps of a half
StripeXs == {Q(k, 2) : k \in -8..8}

\* a pattern and a point in its space, before local_pattern_at is called
StripeArgs(colors, x) ==
    [pattern |-> StripePatternNew(colors), local_point |-> point(x, R(0), R(0)),
     called |-> FALSE, color |-> BLACK]

LocalPatternAt ==
    /\ ~pat.called
    /\ pat' = [pat EXCEPT !.called = TRUE,
                          !.color = local_pattern_at(pat.pattern, pat.local_point)]
    /\ UNCHANGED <<objects, lights, UID_COUNTER, stack, ret, xs, shape, pre, lit, image, local, calc, canvas, threads>>

InitPattern ==
    /\ calc = <<>> /\ canvas = <<>> /\ threads = <<>>
    /\ objects = <<>> /\ lights = <<>> /\ UID_COUNTER = 0
    /\ stack = <<>> /\ ret = <<>> /\ xs = <<>> /\ shape = <<>> /\ pre = <<>>
    /\ lit = <<>> /\ image = <<>> /\ local = <<>>
    /\ pat \in {StripeArgs(colors, x) : colors \in StripeColors, x \in StripeXs}

NextPattern == LocalPatternAt

SpecPattern == InitPattern /\ [][NextPattern]_vars

----------------------------------------------------------------------------
(* Vec4::cross, Vec4::reflect and Mat4::inverse on their own               *)

\* vectors, points, and a tuple that is neither
CrossOperands ==
    { vec(R(1), R(0), R(0)), vec(R(0), R(1), R(0)), vec(R(1), R(2), R(3)),
      vec(R(2), R(3), R(4)), point(R(0), R(1), R(0)), point(R(1), R(2), R(3)),
      Vec4new(R(1), R(0), R(0), R(-1)) }

ReflectVectors ==
    { vec(R(0), R(-1), R(0)), vec(R(1), R(-1), R(0)), vec(R(1), R(2), R(3)),
      vec(R(0), R(0), R(0)), vec(Q(3, 5), Q(4, 5), R(0)), vec(R(0), R(0), R(3)),
      vec(R(-2), R(0), R(5)) }

\* normals of length 1
ReflectNormals ==
    { vec(R(0), R(1), R(0)), vec(Q(3, 5), Q(4, 5), R(0)), vec(R(0), R(0), R(-1)),
      vec(Q(2, 3), Q(2, 3), Q(1, 3)) }

\* a shear with a translation
Sheared ==
    << <<R(1), R(2), R(0), R(1)>>, <<R(0), R(1), R(0), R(-2)>>,
       <<R(3), R(0), R(1), R(0)>>, <<R(0), R(0), R(0), R(1)>> >>

\* a matrix with a row of zeros
ZeroRow ==
    << <<R(-4), R(2), R(-2), R(-3)>>, <<R(9), R(6), R(2), R(6)>>,
       <<R(0), R(-5), R(1), R(-5)>>, <<R(0), R(0), R(0), R(0)>> >>

InverseOperands ==
    { Mat4IDENTITY, translation(R(0), R(3), R(0)), scaling(R(2), R(2), R(2)),
      scaling(R(1), R(0), R(1)), scaling(Q(1, 2), R(-3), R(4)), Sheared, ZeroRow,
      MMul(translation(R(1), R(-2), R(3)), scaling(R(2), Q(1, 2), R(-1))),
      MMul(Sheared, scaling(R(2), R(2), R(2))) }

\* an operation, its vector operands a and b or its matrix operand m, and
\* the results of the calls made so far
CalcArgs(op, a, b, m) == [op |-> op, a |-> a, b |-> b, m |-> m, out |-> <<>>]

\* a.cross(&b)
Cross ==
    /\ calc.op = "cross" /\ calc.out = <<>>
    /\ calc' = [calc EXCEPT !.out = <<cross(calc.a, calc.b)>>]
    /\ UNCHANGED <<objects, lights, UID_COUNTER, stack, ret, xs, shape, pre, lit, image, local, pat, canvas, threads>>

\* a.reflect(&b), and then the result reflected about b again
Reflect ==
    /\ calc.op = "reflect" /\ Len(calc.out) < 2
    /\ calc' = [calc EXCEPT !.out =
                  Append(@, reflect(IF @ = <<>> THEN calc.a ELSE @[1], calc.b))]
    /\ UNCHANGED <<objects, lights, UID_COUNTER, stack, ret, xs, shape, pre, lit, image, local, pat, canvas, threads>>

\* a.inverse(), and then the inverse of the matrix that came back
Inverse ==
    /\ calc.op = "inverse" /\ Len(calc.out) < 2
    /\ calc.out # <<>> => calc.out[1].ok
    /\ calc' = [calc EXCEPT !.out =
                  Append(@, inverse(IF @ = <<>> THEN calc.m ELSE @[1].m))]
    /\ UNCHANGED <<objects, lights, UID_COUNTER, stack, ret, xs, shape, pre, lit, image, local, pat, canvas, threads>>

InitMath ==
    /\ objects = <<>> /\ lights = <<>> /\ UID_COUNTER = 0
    /\ stack = <<>> /\ ret = <<>> /\ xs = <<>> /\ shape = <<>> /\ pre = <<>>
    /\ lit = <<>> /\ image = <<>> /\ local = <<>> /\ pat = <<>>
    /\ canvas = <<>> /\ threads = <<>>
    /\ calc \in { CalcArgs("cross", a, b, Mat4IDENTITY) : a \in CrossOperands, b \in CrossOperands }
           \cup { CalcArgs("reflect", v, n, Mat4IDENTITY) : v \in ReflectVectors, n \in ReflectNormals }
           \cup { CalcArgs("inverse", vec(R(0), R(0), R(0)), vec(R(0), R(0), R(0)), m) : m \in InverseOperands }

NextMath ==
    \/ Cross
    \/ Reflect
    \/ Inverse

SpecMath == InitMath /\ [][NextMath]_vars

----------------------------------------------------------------------------
(* render and Canvas                                                       *)

MaxWidth == 3
MaxHeight == 3

\* RenderSettings::recursion_limit: none, and the default
LimitInputs == {0, 5}

\* Canvas::new: width * height pixels, all black
CanvasNew(width, height) ==
    [width |-> width, height |-> height, data |-> [i \in 1..(width * height) |-> BLACK]]

\* Canvas::in_bounds: Ok(()) or Err
in_bounds(c, x, y) == ~(x >= c.width \/ y >= c.height)

\* an index that runs down the columns
indexColumnMajor(c, x, y) == x * c.height + y

\* Canvas::index (the first pixel is data[0])
index(c, x, y) == y * c.width + x

\* put_pixel without the in_bounds test
put_pixelUnchecked(c, x, y, color) ==
    IF index(c, x, y) >= Len(c.data) THEN [ok |-> FALSE, panicked |-> TRUE, c |-> c]
    ELSE [ok |-> TRUE, panicked |-> FALSE,
          c |-> [c EXCEPT !.data[index(c, x, y) + 1] = color]]

\* Canvas::put_pixel: Err leaves the canvas alone, an index outside data
\* panics
put_pixel(c, x, y, color) ==
    IF ~in_bounds(c, x, y) THEN [ok |-> FALSE, panicked |-> FALSE, c |-> c]
    ELSE IF index(c, x, y) >= Len(c.data) THEN [ok |-> FALSE, panicked |-> TRUE, c |-> c]
    ELSE [ok |-> TRUE, panicked |-> FALSE,
          c |-> [c EXCEPT !.data[index(c, x, y) + 1] = color]]

\* Canvas::get_pixel: Err, or Ok with the color at the index
get_pixel(c, x, y) ==
    IF ~in_bounds(c, x, y) THEN [ok |-> FALSE, panicked |-> FALSE, color |-> BLACK]
    ELSE IF index(c, x, y) >= Len(c.data) THEN [ok |-> FALSE, panicked |-> TRUE, color |-> BLACK]
    ELSE [ok |-> TRUE, panicked |-> FALSE, color |-> c.data[index(c, x, y) + 1]]

\* stands for world.color_at(&camera.ray_for_pixel(x, y), recursion_limit):
\* a pure function of the pixel and the limit, with a value that tells
\* them apart
PixelColor(x, y, recursion_limit) == rgb(R(x), R(y), R(recursion_limit))

\* the call render(camera, world, settings) before its first statement
RenderArgs(w, h, recursion_limit) ==
    [w |-> w, h |-> h, recursion_limit |-> recursion_limit, pc |-> "new",
     canvas |-> <<>>, x |-> 0, y |-> 0, puts |-> <<>>, failed |-> FALSE]

\* let mut image = Canvas::new(w, h)
RenderCanvasNew ==
    /\ image.pc = "new"
    /\ image' = [image EXCEPT !.canvas = CanvasNew(image.w, image.h),
                              !.pc = IF image.h = 0 \/ image.w = 0 THEN "return" ELSE "loop"]
    /\ UNCHANGED <<objects, lights, UID_COUNTER, stack, ret, xs, shape, pre, lit, local, pat, calc, canvas, threads>>

\* one turn of the inner loop: ray_for_pixel, color_at, put_pixel, and the
\* step to the next x, or to the next row
RenderPixel ==
    /\ image.pc = "loop"
    /\ \E put \in {put_pixel(image.canvas, image.x, image.y,
                             PixelColor(image.x, image.y, image.recursion_limit))} :
          image' = [image EXCEPT
                      !.canvas = put.c,
                      !.puts = Append(@, <<image.x, image.y>>),
                      !.failed = @ \/ ~put.ok,
                      !.x = IF image.x + 1 < image.w THEN image.x + 1 ELSE 0,
                      !.y = IF image.x + 1 < image.w THEN @ ELSE @ + 1,
                      !.pc = IF put.panicked THEN "panic"
                             ELSE IF image.x + 1 < image.w \/ image.y + 1 < image.h
                                  THEN "loop" ELSE "return"]
    /\ UNCHANGED <<objects, lights, UID_COUNTER, stack, ret, xs, shape, pre, lit, local, pat, calc, canvas, threads>>

\* the canvas is returned
RenderReturn ==
    /\ image.pc = "return"
    /\ image' = [image EXCEPT !.pc = "done"]
    /\ UNCHANGED <<objects, lights, UID_COUNTER, stack, ret, xs, shape, pre, lit, local, pat, calc, canvas, threads>>

InitRender ==
    /\ calc = <<>> /\ canvas = <<>> /\ threads = <<>>
    /\ objects = <<>> /\ lights = <<>> /\ UID_COUNTER = 0
    /\ stack = <<>> /\ ret = <<>> /\ xs = <<>> /\ shape = <<>> /\ pre = <<>>
    /\ lit = <<>> /\ local = <<>> /\ pat = <<>>
    /\ image \in { RenderArgs(w, h, l) : w \in 0..MaxWidth, h \in 0..MaxHeight,
                                         l \in LimitInputs }

NextRender ==
    \/ RenderCanvasNew
    \/ RenderPixel
    \/ RenderReturn

\* render is straight-line code around two counted loops: it keeps running
SpecRender == InitRender /\ [][NextRender]_vars /\ WF_vars(NextRender)

Init ==
    /\ calc = <<>> /\ canvas = <<>> /\ threads = <<>>
    /\ objects = <<>>
    /\ lights = <<>>
    /\ UID_COUNTER = 0
    /\ stack = <<>>
    /\ ret = <<>>
    /\ xs = <<>>
    /\ shape = <<>>
    /\ pre = <<>>
    /\ lit = <<>> /\ image = <<>> /\ local = <<>> /\ pat = <<>>

Next ==
    \/ \E in \in ShapeInputs : AddObject(in)
    \/ \E l \in {i \in LightInputs : \A k \in 1..Len(lights) : lights[k] # i} : AddLight(l)
    \/ \E r \in RayInputs, d \in 0..MaxDepth : ColorAt(r, d)
    \/ ColorAtMiss
    \/ ColorAtHit
    \/ ReflectedBlack
    \/ ReflectedCall
    \/ RefractedBlack
    \/ RefractedCall
    \/ ShadeHitReturn

Spec == Init /\ [][Next]_vars

----------------------------------------------------------------------------
(* A Canvas and the put_pixel and get_pixel calls of its owner             *)

\* the colors a first and a second put_pixel call are made with
PutColors == << {WHITE, RED}, {RED, GREEN} >>

\* a canvas, the number of put_pixel calls made on it, the canvas before the
\* last of them with the call and its result, and the last get_pixel call
CanvasState(c) == [c |-> c, puts |-> 0, before |-> c, put |-> <<>>, got |-> <<>>]

\* canvas.put_pixel(x, y, color)
CanvasPutPixel(x, y, color) ==
    /\ canvas.puts < Len(PutColors)
    /\ color \in PutColors[canvas.puts + 1]
    /\ \E r \in {put_pixel(canvas.c, x, y, color)} :
          canvas' = [c |-> r.c, puts |-> canvas.puts + 1, before |-> canvas.c,
                     put |-> [x |-> x, y |-> y, color |-> color, ok |-> r.ok,
                              panicked |-> r.panicked],
                     got |-> <<>>]
    /\ UNCHANGED <<objects, lights, UID_COUNTER, stack, ret, xs, shape, pre, lit, image, local, pat, calc, threads>>

\* canvas.get_pixel(x, y)
CanvasGetPixel(x, y) ==
    /\ canvas.got = <<>>
    /\ \E r \in {get_pixel(canvas.c, x, y)} :
          canvas' = [canvas EXCEPT !.got = [x |-> x, y |-> y, ok |-> r.ok,
                                            panicked |-> r.panicked, color |-> r.color]]
    /\ UNCHANGED <<objects, lights, UID_COUNTER, stack, ret, xs, shape, pre, lit, image, local, pat, calc, threads>>

InitCanvas ==
    /\ objects = <<>> /\ lights = <<>> /\ UID_COUNTER = 0
    /\ stack = <<>> /\ ret = <<>> /\ xs = <<>> /\ shape = <<>> /\ pre = <<>>
    /\ lit = <<>> /\ image = <<>> /\ local = <<>> /\ pat = <<>>
    /\ calc = <<>> /\ threads = <<>>
    /\ canvas \in { CanvasState(CanvasNew(w, h)) : w \in 0..MaxWidth, h \in 0..MaxHeight }

NextCanvas ==
    \/ \E x \in 0..MaxWidth : \E y \in 0..MaxHeight : \E color \in {WHITE, RED, GREEN} :
          CanvasPutPixel(x, y, color)
    \/ \E x \in 0..MaxWidth : \E y \in 0..MaxHeight : CanvasGetPixel(x, y)

SpecCanvas == InitCanvas /\ [][NextCanvas]_vars

----------------------------------------------------------------------------
(* Canvas::index in the arithmetic of u32, on canvases of any u32 size     *)

\* a natural number as the sequence of its bytes, the lowest first
Digit(a, k) == IF k <= Len(a) THEN a[k] ELSE 0

RECURSIVE NatAdd(_, _, _)
NatAdd(a, b, carry) ==
    IF a = <<>> /\ b = <<>> THEN (IF carry = 0 THEN <<>> ELSE <<carry>>)
    ELSE LET sum == Digit(a, 1) + Digit(b, 1) + carry
         IN  <<sum % 256>> \o NatAdd(IF a = <<>> THEN <<>> ELSE Tail(a),
                                     IF b = <<>> THEN <<>> ELSE Tail(b),
                                     sum \div 256)

RECURSIVE NatMulDigit(_, _, _)
NatMulDigit(a, d, carry) ==
    IF a = <<>> THEN (IF carry = 0 THEN <<>> ELSE <<carry>>)
    ELSE LET p == Head(a) * d + carry
         IN  <<p % 256>> \o NatMulDigit(Tail(a), d, p \div 256)

RECURSIVE NatMul(_, _)
NatMul(a, b) ==
    IF b = <<>> THEN <<>>
    ELSE NatAdd(NatMulDigit(a, Head(b), 0), <<0>> \o NatMul(a, Tail(b)), 0)

NatEq(a, b) == \A k \in 1..(Len(a) + Len(b)) : Digit(a, k) = Digit(b, k)

NatLt(a, b) ==
    \E k \in 1..(Len(a) + Len(b)) :
        /\ Digit(a, k) < Digit(b, k)
        /\ \A j \in (k + 1)..(Len(a) + Len(b)) : Digit(a, j) = Digit(b, j)

\* the four bytes of a u32 given as a number below 2^31
U32(n) == <<n % 256, (n \div 256) % 256, (n \div 65536) % 256, n \div 16777216>>

\* u32::MAX
U32MAX == <<255, 255, 255, 255>>

\* the value does not fit in 32 bits
Overflows32(a) == \E k \in 5..Len(a) : a[k] # 0

\* the low 32 bits
Wrap32(a) == [k \in 1..4 |-> Digit(a, k)]

\* Canvas::in_bounds on u32 operands
in_bounds32(width, height, x, y) == ~(~NatLt(x, width) \/ ~NatLt(y, height))

\* Canvas::index: y * self.width and + x are u32 operations; a result that
\* does not fit panics where overflow checks are compiled in and wraps where
\* they are not; the cast to usize keeps the value
index32(width, x, y, overflow_checks) ==
    LET product == NatMul(y, width)
        mul_overflows == Overflows32(product)
        sum == NatAdd(Wrap32(product), x, 0)
        overflows == mul_overflows \/ Overflows32(sum)
    IN  [overflows |-> overflows, panicked |-> overflows /\ overflow_checks,
         i |-> Wrap32(sum)]

\* data.len() after Canvas::new: width as usize * height as usize
DataLen(width, height) == NatMul(width, height)

\* widths and heights, and coordinates, up to the largest a u32 holds
DimensionInputs ==
    { U32(0), U32(1), U32(3), U32(65535), U32(65536), U32(65537), U32MAX }

CoordinateInputs ==
    { U32(0), U32(1), U32(2), U32(65534), U32(65535), U32(65536) }

\* self.index(x, y) of put_pixel and get_pixel, which follows in_bounds
CanvasIndex ==
    /\ ~canvas.called
    /\ in_bounds32(canvas.width, canvas.height, canvas.x, canvas.y)
    /\ canvas' = [canvas EXCEPT !.called = TRUE,
                    !.out = index32(canvas.width, canvas.x, canvas.y, canvas.overflow_checks)]
    /\ UNCHANGED <<objects, lights, UID_COUNTER, stack, ret, xs, shape, pre, lit, image, local, pat, calc, threads>>

\* in_bounds is Err and index is not reached
CanvasIndexOutside ==
    /\ ~canvas.called
    /\ ~in_bounds32(canvas.width, canvas.height, canvas.x, canvas.y)
    /\ canvas' = [canvas EXCEPT !.called = TRUE]
    /\ UNCHANGED <<objects, lights, UID_COUNTER, stack, ret, xs, shape, pre, lit, image, local, pat, calc, threads>>

InitIndex ==
    /\ objects = <<>> /\ lights = <<>> /\ UID_COUNTER = 0
    /\ stack = <<>> /\ ret = <<>> /\ xs = <<>> /\ shape = <<>> /\ pre = <<>>
    /\ lit = <<>> /\ image = <<>> /\ local = <<>> /\ pat = <<>>
    /\ calc = <<>> /\ threads = <<>>
    /\ canvas \in { [width |-> w, height |-> h, x |-> x, y |-> y,
                     overflow_checks |-> b, called |-> FALSE,
                     out |-> [overflows |-> FALSE, panicked |-> FALSE, i |-> U32(0)]] :
                    w \in DimensionInputs, h \in DimensionInputs,
                    x \in CoordinateInputs, y \in CoordinateInputs, b \in BOOLEAN }

NextIndex ==
    \/ CanvasIndex
    \/ CanvasIndexOutside

SpecIndex == InitIndex /\ [][NextIndex]_vars

----------------------------------------------------------------------------
(* Threads that construct shapes: fetch_uid on the shared counter          *)

MaxThreads == 2
MaxCalls == 3

\* a thread is between two constructors ("idle") or inside one, before its
\* fetch_uid ("fetch_uid"); uids are the uids of the shapes it has built
ThreadsStart == [t \in 1..MaxThreads |-> [pc |-> "idle", uids |-> <<>>]]

\* Sphere::new up to the struct expression: the transform and its inverse
ThreadSphereNew(t) ==
    /\ threads[t].pc = "idle"
    /\ Len(threads[t].uids) < MaxCalls
    /\ threads' = [threads EXCEPT ![t].pc = "fetch_uid"]
    /\ UNCHANGED <<objects, lights, UID_COUNTER, stack, ret, xs, shape, pre, lit, image, local, pat, calc, canvas>>

\* a fetch_uid whose increment is lost
ThreadFetchUidLost(t) ==
    /\ threads[t].pc = "fetch_uid"
    /\ threads' = [threads EXCEPT ![t].pc = "idle",
                                  ![t].uids = Append(@, fetch_uid(UID_COUNTER).uid)]
    /\ UNCHANGED <<objects, lights, UID_COUNTER, stack, ret, xs, shape, pre, lit, image, local, pat, calc, canvas>>

\* uid: uid::fetch_uid(): the fetch_add is one atomic step of the thread
ThreadFetchUid(t) ==
    /\ threads[t].pc = "fetch_uid"
    /\ threads' = [threads EXCEPT ![t].pc = "idle",
                                  ![t].uids = Append(@, fetch_uid(UID_COUNTER).uid)]
    /\ UID_COUNTER' = fetch_uid(UID_COUNTER).next
    /\ UNCHANGED <<objects, lights, stack, ret, xs, shape, pre, lit, image, local, pat, calc, canvas>>

InitThreads ==
    /\ objects = <<>> /\ lights = <<>> /\ UID_COUNTER = 0
    /\ stack = <<>> /\ ret = <<>> /\ xs = <<>> /\ shape = <<>> /\ pre = <<>>
    /\ lit = <<>> /\ image = <<>> /\ local = <<>> /\ pat = <<>>
    /\ calc = <<>> /\ canvas = <<>>
    /\ threads = ThreadsStart

NextThreads ==
    \/ \E t \in 1..MaxThreads : ThreadSphereNew(t)
    \/ \E t \in 1..MaxThreads : ThreadFetchUid(t)

SpecThreads == InitThreads /\ [][NextThreads]_vars

----------------------------------------------------------------------------
(* Properties                                                              *)

Returned == ret # <<>> /\ ret # <<"running">>

NonNegative(inner) == {k \in 1..Len(inner) : RGe(inner[k].t, R(0))}

\* the first of the elements with the smallest non-negative t
SmallestNonNegative(inner) ==
    CHOOSE k \in NonNegative(inner) :
        \A j \in NonNegative(inner) :
            RLt(inner[k].t, inner[j].t) \/ (inner[k].t = inner[j].t /\ k <= j)

NonDecreasing(inner) ==
    \A k \in 1..(Len(inner) - 1) : RLe(inner[k].t, inner[k + 1].t)

\* C1: the recursion of color_at is cut off by the depth: frame k of the
\* stack runs with the depth of the first call less k - 1, never below 0,
\* so the nesting of color_at calls is at most d + 1, and a frame makes at
\* most two recursive calls.
C1_NestingBounded ==
    stack # <<>> =>
        /\ Len(stack) <= stack[1].depth + 1
        /\ \A k \in 1..Len(stack) :
              /\ stack[k].depth = stack[1].depth - (k - 1)
              /\ stack[k].depth >= 0
              /\ stack[k].kids <= 2

\* two facing mirrors, and the deepest nesting the depth allows
C1_Witness ==
    /\ Len(stack) = 3 /\ stack[1].depth = 2
    /\ Len(objects) = 2
    /\ \A k \in 1..2 : objects[k].kind = "plane"
    /\ objects[1].transform # objects[2].transform
    /\ stack[2].comps # NoComps /\ stack[2].comps.object.uid # stack[1].comps.object.uid

\* C2: reflected_color and refracted_color, entered with depth 0, give
\* black and make no color_at call, whatever the material of the hit.
C2_DepthZeroIsBlack ==
    [][(stack # <<>> /\ Top.depth = 0 /\ Top.pc \in {"reflected_color", "refracted_color"})
        => /\ Len(stack') = Len(stack)
           /\ stack'[Len(stack)].kids = 0
           /\ Top.pc = "reflected_color" =>
                 stack'[Len(stack)].reflected = BLACK /\ stack'[Len(stack)].pc = "refracted_color"
           /\ Top.pc = "refracted_color" =>
                 stack'[Len(stack)].refracted = BLACK /\ stack'[Len(stack)].pc = "shade_hit_end"]_vars

\* both have returned at depth 0 for a reflective and transparent material
C2_Witness ==
    /\ stack # <<>> /\ Top.depth = 0 /\ Top.pc = "shade_hit_end"
    /\ RGt(Top.comps.object.material.reflectivness, R(0))
    /\ RGt(Top.comps.object.material.transparency, R(0))
    /\ Top.reflected = BLACK /\ Top.refracted = BLACK

\* C3: on a collection that was just sorted, hit() returns the element with
\* the smallest t among those with t >= 0 (t = 0 counts), and None exactly
\* when no element has t >= 0.
C3_HitAfterSort ==
    (xs # <<>> /\ xs.last = "sort" /\ xs.h # -1) =>
        IF NonNegative(xs.inner) = {} THEN xs.h = 0
        ELSE /\ xs.h \in NonNegative(xs.inner)
             /\ \A j \in NonNegative(xs.inner) : RLe(xs.inner[xs.h].t, xs.inner[j].t)

\* a sorted collection with negative elements, whose hit is at t = 0
C3_Witness ==
    /\ xs # <<>> /\ xs.last = "sort" /\ xs.h = 2
    /\ xs.inner[2].t = R(0) /\ Len(xs.inner) = 3 /\ xs.inner[3].t = R(1)

\* the elements of inner that belong to the object uid, in their order
OfObject(inner, uid) == SelectSeq(inner, LAMBDA i : i.object.uid = uid)

\* C4: the list World::intersect returns holds exactly the intersections of
\* every object of the world with the ray, in non-decreasing order of t.
C4_IntersectComplete ==
    \A f \in 1..Len(stack) :
        stack[f].pc # "color_at" =>
            /\ NonDecreasing(stack[f].inner)
            /\ \A i \in 1..Len(stack[f].inner) :
                  \E k \in 1..Len(objects) : stack[f].inner[i].object = objects[k]
            /\ \A k \in 1..Len(objects) :
                  OfObject(stack[f].inner, objects[k].uid) = intersect(objects[k], stack[f].ray)

\* four intersections of two objects that the sort had to reorder
C4_Witness ==
    /\ stack # <<>> /\ Top.pc # "color_at"
    /\ Len(Top.inner) = 4
    /\ Top.inner # intersect(objects[1], Top.ray) \o intersect(objects[2], Top.ray)
    /\ Top.inner[1].object.uid # Top.inner[2].object.uid

\* C5: color_at returns black when the ray has no intersection with t >= 0;
\* otherwise the value of shade_hit for the PreCompute of the intersection
\* with the smallest non-negative t, built with the whole sorted list, and
\* the depth of the call.
C5_ColorAt ==
    Returned =>
        /\ NonDecreasing(ret.inner)
        /\ IF NonNegative(ret.inner) = {}
           THEN ret.value = BLACK /\ ret.kids = 0 /\ ret.comps = NoComps
           ELSE LET i == ret.inner[SmallestNonNegative(ret.inner)]
                    comps == PreCompute(i, ret.ray, ret.inner)
                IN  /\ ret.comps = comps
                    /\ ret.color = DirectLight(objects, lights, comps)
                    /\ ReflectedIsBlack(comps, ret.depth) => ret.reflected = BLACK
                    /\ RefractedIsBlack(comps, ret.depth) => ret.refracted = BLACK
                    /\ ret.value = ShadeHitResult(comps, ret.color, ret.reflected, ret.refracted)

\* a ray that starts inside two nested transparent cubes: the hit is not
\* the first intersection and its n1 comes from the list
C5_Witness ==
    /\ Returned /\ ret.level = 1 /\ ret.h = 3 /\ Len(ret.inner) = 4
    /\ ret.comps.n1 = R(2) /\ ret.comps.n2 = Q(3, 2)
    /\ ret.value # BLACK

\* a ray that hits nothing
C5_WitnessMiss ==
    Returned /\ ret.level = 1 /\ ret.inner # <<>> /\ ret.h = 0 /\ ret.value = BLACK

\* the containers list after toggling the objects of list[1..n]
RECURSIVE ContainersAfter(_, _)
ContainersAfter(list, n) ==
    IF n = 0 THEN <<>>
    ELSE LET before == ContainersAfter(list, n - 1)
             uid == list[n].object.uid
         IN  IF \E c \in 1..Len(before) : before[c].uid = uid
             THEN SelectSeq(before, LAMBDA o : o.uid # uid)
             ELSE Append(before, list[n].object)

\* the refractive index of the most recently entered shape, 1.0 in vacuum
IndexOf(containers) ==
    IF containers = <<>> THEN R(1)
    ELSE containers[Len(containers)].material.refractive_index

\* C6: for every index k of a sorted list, PreCompute::new(list[k], ray, list)
\* has n1 = the index of the innermost container after toggling the objects
\* of list[1..k-1] and n2 = the same after also toggling the object of
\* list[k], also when the object has another intersection within EPSILON.
C6_RefractiveIndices ==
    (pre # <<>> /\ pre.comps # NoComps) =>
        /\ pre.comps.n1 = IndexOf(ContainersAfter(pre.list, pre.k - 1))
        /\ pre.comps.n2 = IndexOf(ContainersAfter(pre.list, pre.k))

\* the lighting of each light with the shadow flag of that light
RECURSIVE PerLightSum(_, _, _, _)
PerLightSum(objs, lts, l, comps) ==
    IF l > Len(lts) THEN BLACK
    ELSE CAdd(CompsLighting(comps, lts[l], LightBlocked(objs, lts[l], comps.over_point)),
              PerLightSum(objs, lts, l + 1, comps))

\* C7: the direct illumination of shade_hit is the sum over the lights of
\* the lighting with the shadow flag of that light alone: a light is
\* ambient-only exactly when it is occluded at the over-point itself.
C7_ShadowPerLight ==
    \A f \in 1..Len(stack) :
        stack[f].comps # NoComps =>
            stack[f].color = PerLightSum(objects, lights, 1, stack[f].comps)

\* C8: shade_hit returns direct + reflected * R + refracted * (1 - R), R the
\* Schlick reflectance, exactly when the material of the hit is reflective
\* and transparent, and direct + reflected + refracted otherwise.
C8_SchlickBlend ==
    (Returned /\ ret.comps # NoComps) =>
        LET m == ret.comps.object.material
            both == RGt(m.reflectivness, R(0)) /\ RGt(m.transparency, R(0))
            reflectance == schlick(ret.comps)
            blend == CAdd(CAdd(ret.color, CMul(ret.reflected, reflectance)),
                          CMul(ret.refracted, RSub(R(1), reflectance)))
            sum == CAdd(CAdd(ret.color, ret.reflected), ret.refracted)
        IN  ret.value = IF both THEN blend ELSE sum

\* a reflective and transparent hit whose blend is not the plain sum
C8_Witness ==
    /\ Returned /\ ret.comps # NoComps
    /\ RGt(ret.comps.object.material.reflectivness, R(0))
    /\ RGt(ret.comps.object.material.transparency, R(0))
    /\ ret.kids > 0
    /\ ret.value # CAdd(CAdd(ret.color, ret.reflected), ret.refracted)

\* a reflective, opaque hit: the plain sum with a reflection in it
C8_WitnessSum ==
    /\ Returned /\ ret.comps # NoComps
    /\ RLe(ret.comps.object.material.transparency, R(0))
    /\ ret.reflected # BLACK
    /\ ret.value = CAdd(CAdd(ret.color, ret.reflected), ret.refracted)

\* C9: a hit whose material has reflectivness <= 0 and transparency <= 0
\* is shaded with the direct illumination alone at every depth: reflected
\* and refracted are black and no secondary ray is cast.
C9_OpaqueMatteDirectOnly ==
    (Returned /\ ret.comps # NoComps
       /\ RLe(ret.comps.object.material.reflectivness, R(0))
       /\ RLe(ret.comps.object.material.transparency, R(0))) =>
        /\ ret.value = ret.color
        /\ ret.color = DirectLight(objects, lights, ret.comps)
        /\ ret.reflected = BLACK /\ ret.refracted = BLACK
        /\ ret.kids = 0

\* a lit matte hit shaded with depth left
C9_Witness ==
    /\ Returned /\ ret.comps # NoComps
    /\ RLe(ret.comps.object.material.reflectivness, R(0))
    /\ RLe(ret.comps.object.material.transparency, R(0))
    /\ ret.depth = MaxDepth /\ ret.value # BLACK /\ ret.kids = 0

\* C10: after construction and any sequence of set_transform and transform,
\* the cached inverse of a shape is the inverse of its current transform.
C10_InverseCached ==
    (shape # <<>> /\ ~shape.panicked) =>
        /\ inverse(shape.s.transform).ok
        /\ shape.s.inverse_transform = inverse(shape.s.transform).m

\* C11: a transform that has no inverse panics where it is assigned, in the
\* constructor, in set_transform and in transform(m) alike, so a shape that
\* is still alive holds an invertible transform, and so does every shape
\* that has been intersected.
C11_SingularPanics ==
    (shape # <<>> /\ ~shape.panicked) =>
        /\ inverse(shape.s.transform).ok
        /\ shape.met # <<>> => inverse(shape.met.transform).ok

\* C12: any two shapes made by separate constructor calls compare unequal,
\* also when their kind, transform and material are the same, because each
\* call takes a fresh uid from fetch_uid.
C12_SeparateShapesDiffer ==
    \A j, k \in 1..Len(objects) :
        j # k => /\ ~ShapeEq(objects[j], objects[k])
                 /\ objects[j].uid # objects[k].uid

C12_Witness ==
    /\ Len(objects) = 2
    /\ objects[1].kind = objects[2].kind
    /\ objects[1].transform = objects[2].transform
    /\ MaterialEq(objects[1].material, objects[2].material)

\* C13 as stated: two shape values are equal exactly when their uids are the
\* same, whatever their transforms and materials, so a clone stays equal to
\* its original after set_material or set_transform.
C13_EqualIffSameUid ==
    (shape # <<>> /\ ~shape.panicked /\ shape.copy # <<>>) =>
        (ShapeEq(shape.s, shape.copy) <=> shape.s.uid = shape.copy.uid)

\* C13 amended: two shape values are equal exactly when uid, transform and
\* material are all the same; a clone has the uid of its original and is
\* equal to it until the transform or the material of one of them changes.
C13_EqualIffUidTransformMaterial ==
    (shape # <<>> /\ ~shape.panicked /\ shape.copy # <<>>) =>
        /\ shape.s.uid = shape.copy.uid
        /\ ShapeEq(shape.s, shape.copy) <=>
              /\ shape.s.transform = shape.copy.transform
              /\ MaterialEq(shape.s.material, shape.copy.material)

C13_Witness ==
    /\ shape # <<>> /\ ~shape.panicked /\ shape.copy # <<>>
    /\ shape.s.uid = shape.copy.uid
    /\ shape.s.transform = shape.copy.transform
    /\ shape.s.material # shape.copy.material
    /\ ~ShapeEq(shape.s, shape.copy)

\* C14 as stated: after any sequence of new, push, append, sort and clear
\* the elements of an Intersections collection are in non-decreasing order
\* of t.
C14_AlwaysOrdered ==
    xs # <<>> => NonDecreasing(xs.inner)

\* C14 amended: the elements are in non-decreasing order of t after new,
\* clear and sort, and stay so until the next push or append, which put
\* their elements at the end wherever their t belongs.
C14_OrderedAfterSort ==
    (xs # <<>> /\ xs.last \in {"new", "clear", "sort"}) => NonDecreasing(xs.inner)

C14_Witness ==
    /\ xs # <<>> /\ xs.last = "sort" /\ Len(xs.inner) = 3
    /\ RLt(xs.inner[1].t, xs.inner[2].t) /\ RLt(xs.inner[2].t, xs.inner[3].t)

\* the ambient term: the surface color times the light, times ambient
LitAmbient == CMul(CHad(lit.m.color, lit.light.intensity), lit.m.ambient)

\* the diffuse term of a surface that faces the light
LitDiffuse ==
    CMul(CMul(CHad(lit.m.color, lit.light.intensity), lit.m.diffuse),
         dot(normalize(VSub(lit.light.position, lit.p)), lit.normal))

LitLightDotNormal == dot(normalize(VSub(lit.light.position, lit.p)), lit.normal)

LitReflectDotEye ==
    dot(reflect(VNeg(normalize(VSub(lit.light.position, lit.p))), lit.normal), lit.eye_vec)

C16_BehindAndAway ==
    (lit # <<>> /\ lit.called /\ ~lit.in_shadow) =>
        /\ RLt(LitLightDotNormal, R(0)) => lit.result = LitAmbient
        /\ (RGe(LitLightDotNormal, R(0)) /\ RLt(LitReflectDotEye, R(0))) =>
              lit.result = CAdd(LitAmbient, LitDiffuse)

\* a light in front of a shiny surface, reflected away from the eye
C16_Witness ==
    /\ lit # <<>> /\ lit.called /\ ~lit.in_shadow
    /\ RGt(LitLightDotNormal, R(0)) /\ RLt(LitReflectDotEye, R(0))
    /\ RGt(lit.m.specular, R(0)) /\ lit.result = CAdd(LitAmbient, LitDiffuse)

\* a light behind the surface
C16_WitnessBehind ==
    /\ lit # <<>> /\ lit.called /\ ~lit.in_shadow
    /\ RLt(LitLightDotNormal, R(0)) /\ lit.result = LitAmbient

\* the pixels in row-major order: the k-th is (k mod w, k div w)
RowMajor(w, h) == [k \in 1..(w * h) |-> <<(k - 1) % w, (k - 1) \div w>>]

\* what holds of the canvas when render hands it back
RenderedWhole ==
    /\ image.canvas.width = image.w /\ image.canvas.height = image.h
    /\ Len(image.canvas.data) = image.w * image.h
    /\ image.puts = RowMajor(image.w, image.h)
    /\ ~image.failed
    /\ \A x \in 0..(image.w - 1), y \in 0..(image.h - 1) :
          image.canvas.data[y * image.w + x + 1] = PixelColor(x, y, image.recursion_limit)

\* C17: render returns, and the canvas it returns has exactly width x
\* height pixels, each written exactly once, in row-major order, with the
\* color of color_at for the ray of that pixel at the recursion limit of
\* the settings; no put_pixel call fails.
C17_RenderWritesEveryPixelOnce ==
    /\ [](image # <<>> => image.pc # "panic")
    /\ []((image # <<>> /\ image.pc = "done") => RenderedWhole)
    /\ (image # <<>>) ~> (image.pc = "done")

\* a canvas wider than high has been returned
C17_Witness ==
    /\ image # <<>> /\ image.pc = "done"
    /\ image.w = MaxWidth /\ image.h = 2 /\ Len(image.puts) = 2 * MaxWidth

\* the y at which the k-th intersection of local.inner lies
LocalY(k) == RAdd(local.ray.origin.y, RMul(local.inner[k].t, local.ray.direction.y))

\* C18: every intersection with the wall that Cylinder::local_intersect and
\* Cone::local_intersect return lies at a y strictly between limit_y.0 and
\* limit_y.1, the single root of a ray parallel to a half of the cone
\* included.
C18_LateralWithinLimits ==
    (local # <<>> /\ local.called /\ local.s.kind \in {"cylinder", "cone"}) =>
        \A k \in 1..local.side :
            RGt(LocalY(k), local.s.limit_y[1]) /\ RLt(LocalY(k), local.s.limit_y[2])

\* origin and direction of the ray of local, by axis
LocalOrigin == <<local.ray.origin.x, local.ray.origin.y, local.ray.origin.z>>
LocalDirection == <<local.ray.direction.x, local.ray.direction.y, local.ray.direction.z>>

\* the greatest lower end and the least upper end of the three intervals,
\* a NaN end left out
CubeEnter ==
    CHOOSE v \in {local.axes[k][1] : k \in {j \in 1..3 : ~IsNaN(local.axes[j][1])}} :
        \A k \in 1..3 : ~IsNaN(local.axes[k][1]) => RLe(local.axes[k][1], v)

CubeLeave ==
    CHOOSE v \in {local.axes[k][2] : k \in {j \in 1..3 : ~IsNaN(local.axes[j][2])}} :
        \A k \in 1..3 : ~IsNaN(local.axes[k][2]) => RLe(v, local.axes[k][2])

\* two intersections at the ends of the common interval, in order, or none
CubeTwoOrNone ==
    IF RLe(CubeEnter, CubeLeave)
    THEN /\ Len(local.inner) = 2
         /\ local.inner[1].t = CubeEnter /\ local.inner[2].t = CubeLeave
    ELSE local.inner = <<>>

\* C19 as stated: check_axis gives for every axis a pair with
\* tmin <= tmax, and Cube::local_intersect returns the two ends of the
\* intersection of the three intervals in order, or nothing when they have
\* no common point; never one intersection.
C19_AxesOrderedTwoOrNone ==
    (local # <<>> /\ local.called /\ local.s.kind = "cube") =>
        /\ \A k \in 1..3 : RLe(local.axes[k][1], local.axes[k][2])
        /\ CubeTwoOrNone

\* C19 amended: the pair of an axis has tmin <= tmax unless the ray runs
\* along a face of the cube from an origin on the plane of that face (the
\* direction below EPSILON, the origin 1 or -1), where one end is the NaN of
\* 0 * infinity; max and min skip that end, and the result is still the two
\* ends of the common interval in order, or nothing.
C19_TwoOrNone ==
    (local # <<>> /\ local.called /\ local.s.kind = "cube") =>
        /\ \A k \in 1..3 :
              \/ RLe(local.axes[k][1], local.axes[k][2])
              \/ /\ RLt(RAbs(LocalDirection[k]), EPSILON)
                 /\ RAbs(LocalOrigin[k]) = R(1)
                 /\ IsNaN(local.axes[k][1]) # IsNaN(local.axes[k][2])
        /\ CubeTwoOrNone

\* a ray along the face x = 1 that was given two intersections
C19_Witness ==
    /\ local # <<>> /\ local.called /\ local.s.kind = "cube"
    /\ IsNaN(local.axes[1][2]) /\ Len(local.inner) = 2
    /\ RLt(local.inner[1].t, local.inner[2].t)

\* a ray past the cube
C19_WitnessNone ==
    /\ local # <<>> /\ local.called /\ local.s.kind = "cube"
    /\ local.inner = <<>> /\ RGt(CubeEnter, CubeLeave)

\* C20: local_pattern_at(p) returns colors[floor(p.x) mod N], mod being the
\* non-negative remainder, for every x, negative x included, and every
\* number N >= 1 of colors.
C20_FloorModN ==
    (pat # <<>> /\ pat.called) =>
        pat.color = pat.pattern.colors[(floor(pat.local_point.x) % Len(pat.pattern.colors)) + 1]

\* C21: a.cross(b) panics whenever a.w or b.w is not 0, and the product of
\* two operands with w = 0 has w = 0.
C21_CrossNeedsVectors ==
    (calc # <<>> /\ calc.op = "cross" /\ calc.out # <<>>) =>
        /\ calc.out[1].panicked <=> (calc.a.w # R(0) \/ calc.b.w # R(0))
        /\ ~calc.out[1].panicked => calc.out[1].v.w = R(0)

\* v is a multiple of the unit vector n
Parallel(v, n) == v = VMul(n, dot(v, n))

\* C22: for a unit normal n, reflecting v about n twice gives v back, and a
\* v parallel to n is reflected to -v.
C22_ReflectTwiceIsIdentity ==
    (calc # <<>> /\ calc.op = "reflect" /\ dot(calc.b, calc.b) = R(1)) =>
        /\ Len(calc.out) = 2 => VecEq(calc.out[2], calc.a)
        /\ (Len(calc.out) >= 1 /\ Parallel(calc.a, calc.b)) =>
               VecEq(calc.out[1], VNeg(calc.a))

\* a vector that is neither along the normal nor in the mirror, reflected twice
C22_Witness ==
    /\ calc # <<>> /\ calc.op = "reflect" /\ Len(calc.out) = 2
    /\ dot(calc.b, calc.b) = R(1)
    /\ ~Parallel(calc.a, calc.b) /\ dot(calc.a, calc.b) # R(0)
    /\ ~VecEq(calc.out[1], calc.a)

\* a vector along the normal, reflected
C22_WitnessParallel ==
    /\ calc # <<>> /\ calc.op = "reflect" /\ Len(calc.out) >= 1
    /\ Parallel(calc.a, calc.b) /\ calc.a # vec(R(0), R(0), R(0))

\* every element of a is closer than EPSILON to the element of b
MatWithinEpsilon(a, b) ==
    \A r \in 1..4 : \A c \in 1..4 : RLt(RAbs(RSub(a[r][c], b[r][c])), EPSILON)

\* C23: inverse() is Err exactly when the determinant is 0, and for every
\* other matrix it succeeds and the inverse of the inverse is the matrix
\* itself within epsilon.
C23_InverseTwiceIsIdentity ==
    (calc # <<>> /\ calc.op = "inverse" /\ calc.out # <<>>) =>
        /\ calc.out[1].ok <=> determinant(calc.m) # R(0)
        /\ Len(calc.out) = 2 =>
               /\ calc.out[2].ok
               /\ MatWithinEpsilon(calc.out[2].m, calc.m)

\* a matrix that is not its own inverse, inverted twice
C23_Witness ==
    /\ calc # <<>> /\ calc.op = "inverse" /\ Len(calc.out) = 2
    /\ calc.out[1].m # calc.m
    /\ ~MatWithinEpsilon(calc.out[1].m, calc.m)

\* a matrix with determinant 0, whose inverse() is Err
C23_WitnessSingular ==
    /\ calc # <<>> /\ calc.op = "inverse" /\ calc.out # <<>>
    /\ ~calc.out[1].ok /\ calc.m[2][2] = R(0)

\* C24: reflected_color and refracted_color call color_at only at a depth of
\* at least 1 and pass exactly depth - 1, so the depth never goes below 0
\* and every bounce lowers it.
C24_BounceLowersDepth ==
    [][(stack # <<>> /\ Len(stack') = Len(stack) + 1)
        => /\ Top.pc \in {"reflected_color", "refracted_color"}
           /\ Top.depth >= 1
           /\ stack'[Len(stack')].depth = Top.depth - 1
           /\ stack'[Len(stack')].depth >= 0
           /\ stack'[Len(stack')].depth < Top.depth
           /\ stack'[Len(stack)].depth = Top.depth]_vars

\* a refraction inside a reflection: two bounces, each one lower
C24_Witness ==
    /\ Len(stack) = 3
    /\ stack[1].pc = "reflected_wait" /\ stack[2].pc = "refracted_wait"
    /\ stack[2].depth = stack[1].depth - 1 /\ stack[3].depth = 0

\* the place of an intersection in the order World::intersect found it
Discovered(i) ==
    CHOOSE k \in 1..Len(pre.list) : WorldIntersectUnsorted(pre.objs, pre.ray)[k] = i

\* the place of the object of an intersection among the objects of the world
Added(i) == CHOOSE k \in 1..Len(pre.objs) : pre.objs[k].uid = i.object.uid

\* C25: intersections with exactly equal t stay in the order they were
\* found (objects in the order they were added, and within one object the
\* order of local_intersect), so on a tie hit() returns the intersection of
\* the object added first.
C25_TiesKeepDiscoveryOrder ==
    pre.ray # <<>> =>
        /\ \A i \in 1..Len(pre.list) : \A j \in (i + 1)..Len(pre.list) :
              pre.list[i].t = pre.list[j].t =>
                  Discovered(pre.list[i]) < Discovered(pre.list[j])
        /\ hit(pre.list) # 0 =>
              \A j \in 1..Len(pre.list) :
                  pre.list[j].t = pre.list[hit(pre.list)].t =>
                      Added(pre.list[hit(pre.list)]) <= Added(pre.list[j])

\* two objects met at the same t, which is the t of the hit
C25_Witness ==
    /\ pre.ray # <<>> /\ hit(pre.list) # 0
    /\ \E j \in 1..Len(pre.list) :
          /\ pre.list[j].t = pre.list[hit(pre.list)].t
          /\ pre.list[j].object.uid # pre.list[hit(pre.list)].object.uid
    /\ \E k \in 1..(Len(pre.list) - 1) :
          RGt(WorldIntersectUnsorted(pre.objs, pre.ray)[k].t,
              WorldIntersectUnsorted(pre.objs, pre.ray)[k + 1].t)

\* C26: the normal PreCompute::new stores faces the eye: inside is set
\* exactly when the normal of the shape at the hit point has a negative dot
\* with the eye vector, and then the stored normal is its negation;
\* over_point and under_point lie EPSILON along and against the stored normal.
C26_NormalFacesEye ==
    (pre # <<>> /\ pre.comps # NoComps) =>
        \E shape_normal \in {normal_at(pre.comps.object, pre.comps.point)} :
            /\ RGe(dot(pre.comps.normal, pre.comps.eye_vec), R(0))
            /\ pre.comps.inside <=> RLt(dot(shape_normal, pre.comps.eye_vec), R(0))
            /\ pre.comps.normal = IF pre.comps.inside THEN VNeg(shape_normal) ELSE shape_normal
            /\ pre.comps.over_point = VAdd(pre.comps.point, VMul(pre.comps.normal, EPSILON))
            /\ pre.comps.under_point = VSub(pre.comps.point, VMul(pre.comps.normal, EPSILON))

\* a hit from inside a shape: the stored normal is the flipped one
C26_Witness ==
    /\ pre # <<>> /\ pre.comps # NoComps
    /\ pre.comps.inside
    /\ RGt(dot(pre.comps.normal, pre.comps.eye_vec), R(0))
    /\ pre.comps.normal = VNeg(normal_at(pre.comps.object, pre.comps.point))
    /\ pre.comps.over_point # pre.comps.under_point

\* C27: put_pixel(x, y, c) with x >= width or y >= height is Err and changes
\* no pixel; in bounds it is Ok and changes the pixel at y * width + x and
\* no other, after which get_pixel(x, y) gives c and get_pixel of any other
\* coordinate gives what it gave before the call.
C27_PutPixelWritesOnePixel ==
    (canvas # <<>> /\ canvas.put # <<>>) =>
        /\ ~canvas.put.panicked
        /\ IF canvas.put.x >= canvas.c.width \/ canvas.put.y >= canvas.c.height
           THEN ~canvas.put.ok /\ canvas.c = canvas.before
           ELSE /\ canvas.put.ok
                /\ canvas.c.width = canvas.before.width
                /\ canvas.c.height = canvas.before.height
                /\ \A i \in 1..Len(canvas.c.data) :
                      canvas.c.data[i] =
                          IF i = canvas.put.y * canvas.c.width + canvas.put.x + 1
                          THEN canvas.put.color ELSE canvas.before.data[i]
        /\ canvas.got # <<>> =>
              IF canvas.put.ok /\ canvas.got.x = canvas.put.x /\ canvas.got.y = canvas.put.y
              THEN canvas.got.ok /\ canvas.got.color = canvas.put.color
              ELSE /\ canvas.got.ok = get_pixel(canvas.before, canvas.got.x, canvas.got.y).ok
                   /\ canvas.got.color = get_pixel(canvas.before, canvas.got.x, canvas.got.y).color

\* a pixel was painted over, and another pixel painted before is read back
C27_Witness ==
    /\ canvas # <<>> /\ canvas.put # <<>> /\ canvas.got # <<>>
    /\ canvas.put.ok /\ canvas.got.ok
    /\ canvas.put.x > 0 /\ canvas.put.y > 0
    /\ canvas.got.x # canvas.put.x /\ canvas.got.y = canvas.put.y
    /\ canvas.got.color # BLACK /\ canvas.got.color # canvas.put.color

\* a call outside the canvas after a call inside it
C27_WitnessOutside ==
    /\ canvas # <<>> /\ canvas.put # <<>> /\ ~canvas.put.ok
    /\ canvas.put.x >= canvas.c.width /\ canvas.put.y < canvas.c.height
    /\ \E i \in 1..Len(canvas.c.data) : canvas.c.data[i] # BLACK

\* C28: however the fetch_uid calls of several threads interleave, no two
\* calls return the same value and the values one thread receives are
\* strictly increasing, so shapes built concurrently never share a uid.
C28_ConcurrentUidsDistinct ==
    threads # <<>> =>
        /\ \A t \in 1..MaxThreads : \A i \in 1..Len(threads[t].uids) :
              \A k \in (i + 1)..Len(threads[t].uids) :
                  threads[t].uids[i] < threads[t].uids[k]
        /\ \A t \in 1..MaxThreads : \A u \in 1..MaxThreads :
              t # u => \A i \in 1..Len(threads[t].uids) : \A k \in 1..Len(threads[u].uids) :
                  threads[t].uids[i] # threads[u].uids[k]

\* two threads inside constructors at once, their fetch_uid calls interleaved
C28_Witness ==
    /\ threads # <<>>
    /\ Len(threads[1].uids) >= 2 /\ Len(threads[2].uids) >= 1
    /\ threads[1].uids[1] < threads[2].uids[1]
    /\ threads[2].uids[1] < threads[1].uids[2]
    /\ threads[1].pc = "fetch_uid" /\ threads[2].pc = "fetch_uid"

\* the intersections the frames of the running calls and the last return hold
HeldIntersections ==
    UNION { { stack[k].inner[i] : i \in 1..Len(stack[k].inner) } : k \in 1..Len(stack) }
    \cup (IF Returned THEN { ret.inner[i] : i \in 1..Len(ret.inner) } ELSE {})

\* C29: intersect and color_at leave the world and the uid counter as they
\* are; the shape an intersection holds is a clone with the uid of a world
\* object and equal to it, and the color a call returns depends on the
\* world, the ray and the depth alone, so that a second rendering of a scene
\* gives the same colors.
C29_RenderingLeavesWorldAlone ==
    /\ [][(stack # <<>> \/ stack' # <<>>) =>
            /\ objects' = objects /\ lights' = lights
            /\ UID_COUNTER' = UID_COUNTER]_vars
    /\ [](\A i \in HeldIntersections :
            \E k \in 1..Len(objects) :
                /\ i.object.uid = objects[k].uid
                /\ ShapeEq(i.object, objects[k])
                /\ i.object.uid < UID_COUNTER)
    /\ []((Returned /\ ret.level = 1) =>
            ret.value = color_at(objects, lights, ret.ray, ret.depth))

\* a second ray was cast into a world of two objects and bounced off one of
\* them; the counter is where the construction of the scene left it
C29_Witness ==
    /\ Returned /\ ret.level = 1 /\ ret.kids >= 1 /\ ret.value # BLACK
    /\ Len(objects) = 2 /\ UID_COUNTER = 2
    /\ Len(ret.inner) >= 2
    /\ \E i \in 1..Len(ret.inner) : ret.inner[i].object.uid = 1

\* C30: on every canvas Canvas::new can make and for every (x, y) in
\* bounds, y * width + x does not overflow 32 bits and is below the length
\* width * height of the buffer, so no index is out of range and none is
\* that of another pixel.
C30_IndexFitsU32 ==
    (canvas # <<>> /\ canvas.called
        /\ in_bounds32(canvas.width, canvas.height, canvas.x, canvas.y)) =>
        /\ ~canvas.out.overflows
        /\ ~canvas.out.panicked
        /\ NatLt(canvas.out.i, DataLen(canvas.width, canvas.height))
        /\ NatEq(canvas.out.i, NatAdd(NatMul(canvas.y, canvas.width), canvas.x, 0))

\* what does hold: an index that did not overflow is the index of the pixel
\* and lies inside the buffer
C30_IndexRightUnlessOverflow ==
    (canvas # <<>> /\ canvas.called
        /\ in_bounds32(canvas.width, canvas.height, canvas.x, canvas.y)
        /\ ~canvas.out.overflows) =>
        /\ NatLt(canvas.out.i, DataLen(canvas.width, canvas.height))
        /\ NatEq(canvas.out.i, NatAdd(NatMul(canvas.y, canvas.width), canvas.x, 0))

====
